---------------------------- MODULE Spec2Model ----------------------------
(***************************************************************************)
(* SCEWL bus controller (controller/scewl-rust): the framed reader and     *)
(* writer over the CPU, SSS and RAD serial lines, the dispatch loop, the   *)
(* secure authentication handler and the secure crypto handler.            *)
(*                                                                         *)
(* Byte streams are sequences of elements [k, w, v]: k is the kind of the  *)
(* element, w the number of bytes it stands for and v its value.  A plain  *)
(* byte is ("b", 1, 0..255).  The output of a cryptographic primitive is   *)
(* one symbolic element of the primitive's width (an HMAC is 32 bytes that *)
(* name the key and the authenticated fields), so that two outputs are     *)
(* equal exactly when their inputs are.                                    *)
(***************************************************************************)
EXTENDS Integers, Sequences, FiniteSets, TLC

(***************************************************************************)
(* Bounds of the model                                                     *)
(***************************************************************************)
\* the largest message counter a peer or the controller reaches
MaxCtr == 2
\* the number of frames a sender puts on the radio back to back
BurstLen == 2
\* the identity of another provisioned SED
PeerId == 9
\* an SED that is neither this controller nor the peer
OtherId == 7
\* the identity this controller is built with (SCEWL_ID of build.rs)
SCEWL_ID == 5

(***************************************************************************)
(* Program constants                                                       *)
(***************************************************************************)
SCEWL_MAX_DATA_SZ == 16640
\* size_of::<usize>() on the Cortex-M target of interface.rs
UsizeSize == 4
\* the AES block size of Cbc<Aes128, Pkcs7>
BlockSize == 16
\* capacity U256 of the three LinearMap counters
MapCapacity == 256

Min(a, b) == IF a < b THEN a ELSE b

(***************************************************************************)
(* controller.rs: Id                                                       *)
(***************************************************************************)
Broadcast == [tag |-> "Broadcast", n |-> 0]
SSS == [tag |-> "SSS", n |-> 0]
FAA == [tag |-> "FAA", n |-> 0]
Other(n) == [tag |-> "Other", n |-> n]

\* impl From<u16> for Id
IdFromU16(num) ==
    CASE num = 0 -> Broadcast
      [] num = 1 -> SSS
      [] num = 2 -> FAA
      [] OTHER -> Other(num)

\* a variant of U16FromId: the id of another SED is cut to one byte
U16FromIdOneByte(id) ==
    CASE id.tag = "Broadcast" -> 0
      [] id.tag = "SSS" -> 1
      [] id.tag = "FAA" -> 2
      [] OTHER -> id.n % 256

\* impl From<Id> for u16
U16FromId(id) ==
    CASE id.tag = "Broadcast" -> 0
      [] id.tag = "SSS" -> 1
      [] id.tag = "FAA" -> 2
      [] OTHER -> id.n

SelfId == IdFromU16(SCEWL_ID)

(***************************************************************************)
(* Byte streams                                                            *)
(***************************************************************************)
B(n) == [k |-> "b", w |-> 1, v |-> n]
Bytes(s) == [i \in 1..Len(s) |-> B(s[i])]
\* n bytes of a chunk that was cut: no structure is left
Frag(n) == [k |-> "frag", w |-> n, v |-> 0]
\* n bytes of content named v, whose values the model does not follow
Blob(n, v) == [k |-> "blob", w |-> n, v |-> v]
\* n zero bytes
Zeros(n) == IF n = 0 THEN <<>> ELSE <<[k |-> "zero", w |-> n, v |-> 0]>>

RECURSIVE Width(_)
Width(s) == IF s = <<>> THEN 0 ELSE Head(s).w + Width(Tail(s))

\* the first n bytes of s (n <= Width(s))
RECURSIVE Take(_, _)
Take(s, n) ==
    IF n = 0 \/ s = <<>> THEN <<>>
    ELSE IF Head(s).w <= n THEN <<Head(s)>> \o Take(Tail(s), n - Head(s).w)
    ELSE <<Frag(n)>>

\* s without its first n bytes
RECURSIVE Drop(_, _)
Drop(s, n) ==
    IF n = 0 \/ s = <<>> THEN s
    ELSE IF Head(s).w <= n THEN Drop(Tail(s), n - Head(s).w)
    ELSE <<Frag(Head(s).w - n)>> \o Tail(s)

\* the value of the byte at offset i of buffer s; the buffer is zero past s,
\* and a byte inside a symbolic element reads as 170
OpaqueByte == 170
RECURSIVE ByteAt(_, _)
ByteAt(s, i) ==
    IF s = <<>> THEN 0
    ELSE IF i < Head(s).w
         THEN (IF Head(s).k = "b" THEN Head(s).v
               ELSE IF Head(s).k = "zero" THEN 0 ELSE OpaqueByte)
         ELSE ByteAt(Tail(s), i - Head(s).w)

\* cursor.rs: read_u16 / write_u16 (native = little endian on the target)
ReadU16(s, i) == ByteAt(s, i) + 256 * ByteAt(s, i + 1)
WriteU16(n) == <<B(n % 256), B((n \div 256) % 256)>>
\* cursor.rs: read_i16 / write_i16 (two's complement)
ReadI16(s, i) ==
    LET Signed(u) == IF u >= 32768 THEN u - 65536 ELSE u IN Signed(ReadU16(s, i))
WriteI16(n) == WriteU16((n + 65536) % 65536)


\* the element that starts exactly at byte offset off of s, a fragment when
\* offset off falls inside an element, zero bytes past the end of s
RECURSIVE ElemAt(_, _)
ElemAt(s, off) ==
    IF s = <<>> THEN [k |-> "zero", w |-> 1, v |-> 0]
    ELSE IF off = 0 THEN Head(s)
    ELSE IF off < Head(s).w THEN Frag(1)
    ELSE ElemAt(Tail(s), off - Head(s).w)

\* bytes i .. i+n-1 of buffer s are all zero
ZeroRange(s, i, n) == \A j \in i..(i + n - 1) : ByteAt(s, j) = 0

\* a counter too large for the model's integers reads as this value, which is
\* above every counter the model sends
BigCounter == 16777216
\* cursor.rs: read_u64
ReadU64(s, off) ==
    LET e == ElemAt(s, off) IN
    IF e.k = "u64" THEN e.v
    ELSE IF ZeroRange(s, off + 3, 5)
         THEN ByteAt(s, off) + 256 * ByteAt(s, off + 1) + 65536 * ByteAt(s, off + 2)
         ELSE BigCounter
WriteU64(n) == <<[k |-> "u64", w |-> 8, v |-> n]>>
\* cursor.rs: read_usize / write_usize
ReadUsize(s, off) ==
    LET e == ElemAt(s, off) IN
    IF e.k = "usize" THEN e.v
    ELSE IF ZeroRange(s, off + 3, UsizeSize - 3)
         THEN ByteAt(s, off) + 256 * ByteAt(s, off + 1) + 65536 * ByteAt(s, off + 2)
         ELSE BigCounter
WriteUsize(n) == <<[k |-> "usize", w |-> UsizeSize, v |-> n]>>

\* the buffer s with its first Width(new) bytes overwritten by new
Overwrite(s, new) == new \o Drop(s, Width(new))
\* bytes [from, from + n) of buffer s, zero past the end of s
Slice(s, from, n) ==
    LET Of(have, w) == IF w >= n THEN Take(have, n) ELSE have \o Zeros(n - w)
        From(have) == Of(have, Width(have))
    IN From(Drop(s, from))

(***************************************************************************)
(* controller.rs: MessageHeader, Message, SSSOp, SSSMessage                *)
(***************************************************************************)
MagicS == 83
MagicC == 67

\* a variant of Message::to_canonical: the length is truncated to one byte
to_canonical_u8(msg) ==
    [tgt_id |-> msg.tgt_id, src_id |-> msg.src_id, len |-> msg.len % 256]

\* Message::to_canonical: the length is truncated to the u16 of the wire
to_canonical(msg) ==
    [tgt_id |-> msg.tgt_id, src_id |-> msg.src_id, len |-> msg.len % 65536]

\* MessageHeader::to_bytes
MessageHeader_to_bytes(hdr) ==
    Bytes(<<MagicS, MagicC>>) \o WriteU16(U16FromId(hdr.tgt_id))
        \o WriteU16(U16FromId(hdr.src_id)) \o WriteU16(hdr.len)

\* MessageHeader::from_bytes: the two magic bytes are skipped
MessageHeader_from_bytes(buf) ==
    [tgt_id |-> IdFromU16(ReadU16(buf, 2)),
     src_id |-> IdFromU16(ReadU16(buf, 4)),
     len |-> ReadU16(buf, 6)]

\* impl From<i16> for SSSOp
SSSOpFromI16(op) ==
    CASE op = -1 -> "Already"
      [] op = 0 -> "Register"
      [] op = 1 -> "Deregister"
      [] OTHER -> "Unknown"

\* impl From<SSSOp> for i16: the discriminant
I16FromSSSOp(op) ==
    CASE op = "Already" -> -1
      [] op = "Register" -> 0
      [] op = "Deregister" -> 1
      [] OTHER -> 2

SSSMessage_size == 4
\* SSSMessage::to_bytes
SSSMessage_to_bytes(m) == WriteU16(U16FromId(m.dev_id)) \o WriteI16(I16FromSSSOp(m.op))
\* SSSMessage::from_bytes
SSSMessage_from_bytes(data) ==
    [dev_id |-> IdFromU16(ReadU16(data, 0)), op |-> SSSOpFromI16(ReadI16(data, 2))]

(***************************************************************************)
(* secure/crypto.rs: the secure crypto handler                             *)
(***************************************************************************)
\* VerificationSegment::size: iv, ctr, hmac
VerificationSegment_size == 16 + 8 + 32
\* ContentHeader::size: sha, len
ContentHeader_size == 32 + UsizeSize

\* Option<Handler>::None
NoHandler ==
    [present |-> FALSE, aes_key |-> "", hmac_key |-> "",
     send_dm_ctr |-> <<>>, recv_dm_ctr |-> <<>>, brdcst_ctr |-> <<>>]

\* Handler::new: the three counter maps start empty
Handler_new(aes_key, hmac_key) ==
    [present |-> TRUE, aes_key |-> aes_key, hmac_key |-> hmac_key,
     send_dm_ctr |-> <<>>, recv_dm_ctr |-> <<>>, brdcst_ctr |-> <<>>]

\* LinearMap::get(..).copied().unwrap_or(0)
MapGet(m, key) == IF key \in DOMAIN m THEN m[key] ELSE 0
\* LinearMap::insert succeeds unless the key is new and the map is full
MapCanInsert(m, key) == key \in DOMAIN m \/ Cardinality(DOMAIN m) < MapCapacity
MapInsert(m, key, val) ==
    [x \in (DOMAIN m) \cup {key} |-> IF x = key THEN val ELSE m[x]]

\* HMAC-SHA256 under key over header || iv || ctr
Hmac(key, hdr, iv, ctr) == <<key, hdr, iv, ctr>>
\* SHA-256 of a byte string
Sha256(bytes) == bytes

\* VerificationSegment::to_bytes
VerificationSegment_to_bytes(seg) ==
    <<[k |-> "iv", w |-> 16, v |-> seg.iv]>> \o WriteU64(seg.ctr)
        \o <<[k |-> "hmac", w |-> 32, v |-> seg.hmac]>>

\* VerificationSegment::from_bytes; bytes that are no IV of the model read as
\* IV -1, bytes that are no HMAC output as the empty string
VerificationSegment_from_bytes(data) ==
    LET e1 == ElemAt(data, 0)
        e3 == ElemAt(data, 24)
    IN [iv |-> IF e1.k = "iv" THEN e1.v ELSE -1,
        ctr |-> ReadU64(data, 16),
        hmac |-> IF e3.k = "hmac" THEN e3.v ELSE <<>>]

\* ContentHeader::to_bytes
ContentHeader_to_bytes(h) ==
    <<[k |-> "sha", w |-> 32, v |-> h.sha]>> \o WriteUsize(h.len)

\* ContentHeader::from_bytes; bytes that are no SHA-256 output read as the
\* digest of a string that is never sent
ContentHeader_from_bytes(data) ==
    LET e1 == ElemAt(data, 0)
    IN [sha |-> IF e1.k = "sha" THEN e1.v ELSE <<Frag(32)>>, len |-> ReadUsize(data, 32)]

\* a variant of PaddedLen: a length that is a multiple of the block size is
\* not padded
PaddedLenIfNeeded(n) == ((n + BlockSize - 1) \div BlockSize) * BlockSize

\* Pkcs7 padding of n bytes: 1..16 bytes are always added
PaddedLen(n) == ((n \div BlockSize) + 1) * BlockSize

\* Cbc<Aes128, Pkcs7>::encrypt of plaintext pt under (key, iv)
AesCbcEncrypt(key, iv, pt) ==
    LET p == PaddedLen(Width(pt)) - Width(pt)
        padded == pt \o <<[k |-> "pad", w |-> p, v |-> p]>>
    IN <<[k |-> "aes", w |-> Width(padded), v |-> <<key, iv, padded>>]>>

\* Cbc<Aes128, Pkcs7>::decrypt of ct under (key, iv), in place: [ok, buf],
\* buf the bytes left where ct was.  It fails on a length that is no
\* multiple of the block size and on bad padding.  Bytes that are no
\* ciphertext under key decrypt to bytes without valid padding; a ciphertext
\* under key with another IV decrypts to the plaintext with its first block
\* (the head of the SHA) garbled.
AesCbcDecrypt(key, iv, ct) ==
    LET n == Width(ct) IN
    IF n % BlockSize # 0 \/ n = 0 THEN [ok |-> FALSE, buf |-> ct]
    ELSE IF Len(ct) = 1 /\ ct[1].k = "aes" /\ ct[1].v[1] = key
         THEN IF ct[1].v[2] = iv
              THEN [ok |-> TRUE, buf |-> ct[1].v[3]]
              ELSE [ok |-> TRUE,
                    buf |-> <<Frag(BlockSize)>> \o Drop(ct[1].v[3], BlockSize)]
         ELSE [ok |-> FALSE, buf |-> <<Frag(n)>>]

\* usize subtraction a - b without overflow checks.  The modulus stands for
\* 2^32, which is beyond the model checker's integers: it has the same
\* residues modulo the block size and is above every length of the model.
UsizeModulus == 1024 * 1024 * 1024
WrapSub(a, b) == IF a >= b THEN a - b ELSE UsizeModulus + a - b

\* the inbound counter verify and decrypt consult for msg
InboundCtr(h, msg) ==
    IF msg.tgt_id.tag = "Broadcast" THEN MapGet(h.brdcst_ctr, msg.src_id)
    ELSE MapGet(h.recv_dm_ctr, msg.src_id)

\* a variant of verify: the counter of the segment is not compared
verify_ignoring_counter(h, data, msg, oc) ==
    IF msg.len < VerificationSegment_size /\ oc THEN "panic"
    ELSE IF WrapSub(msg.len, VerificationSegment_size) % 16 # 0 THEN "false"
    ELSE LET Checked(ct_hdr) ==
                 IF msg.tgt_id.tag \notin {"Broadcast", "Other"} THEN "panic"
                 ELSE IF Hmac(h.hmac_key, MessageHeader_to_bytes(to_canonical(msg)),
                              ct_hdr.iv, ct_hdr.ctr) = ct_hdr.hmac
                      THEN "true"
                      ELSE "false"
         IN Checked(VerificationSegment_from_bytes(data))

\* a variant of verify: the HMAC is recomputed over the IV and the counter
\* only, whatever transport header its maker put under it
verify_any_header(h, data, msg, oc) ==
    IF msg.len < VerificationSegment_size /\ oc THEN "panic"
    ELSE IF WrapSub(msg.len, VerificationSegment_size) % 16 # 0 THEN "false"
    ELSE LET Checked(ct_hdr) ==
                 IF msg.tgt_id.tag \notin {"Broadcast", "Other"} THEN "panic"
                 ELSE IF ct_hdr.ctr < InboundCtr(h, msg) THEN "false"
                 ELSE IF /\ Len(ct_hdr.hmac) = 4
                         /\ ct_hdr.hmac[1] = h.hmac_key
                         /\ ct_hdr.hmac[3] = ct_hdr.iv
                         /\ ct_hdr.hmac[4] = ct_hdr.ctr
                      THEN "true"
                      ELSE "false"
         IN Checked(VerificationSegment_from_bytes(data))

\* Handler::verify: "true", "false" or "panic".  oc: the build checks
\* integer overflow (a debug build) or wraps (a release build).
verify(h, data, msg, oc) ==
    IF msg.len < VerificationSegment_size /\ oc THEN "panic"
    ELSE IF WrapSub(msg.len, VerificationSegment_size) % 16 # 0 THEN "false"
    ELSE LET Checked(ct_hdr) ==
                 IF msg.tgt_id.tag \notin {"Broadcast", "Other"} THEN "panic"
                 ELSE IF ct_hdr.ctr < InboundCtr(h, msg) THEN "false"
                 ELSE IF Hmac(h.hmac_key, MessageHeader_to_bytes(to_canonical(msg)),
                              ct_hdr.iv, ct_hdr.ctr) = ct_hdr.hmac
                      THEN "true"
                      ELSE "false"
         IN Checked(VerificationSegment_from_bytes(data))

\* Handler::verification_len
verification_len == VerificationSegment_size

\* the counter encrypt puts into the envelope of msg
NextCtr(h, msg) ==
    IF msg.tgt_id.tag = "Broadcast" THEN MapGet(h.brdcst_ctr, msg.src_id) + 1
    ELSE MapGet(h.send_dm_ctr, msg.src_id) + 1

\* the handler after encrypt has counted msg
CountSend(h, msg) ==
    IF msg.tgt_id.tag = "Broadcast"
    THEN [h EXCEPT !.brdcst_ctr = MapInsert(h.brdcst_ctr, msg.src_id, NextCtr(h, msg))]
    ELSE [h EXCEPT !.send_dm_ctr = MapInsert(h.send_dm_ctr, msg.tgt_id, NextCtr(h, msg))]

\* a variant of Envelope: the HMAC covers the header with the length of the
\* cleartext, not of the envelope
EnvelopeStaleLen(aes_key, hmac_key, msg, m, ctr, iv) ==
    LET ct == AesCbcEncrypt(aes_key, iv,
                  ContentHeader_to_bytes([sha |-> Sha256(m), len |-> msg.len]) \o m)
        hmac == Hmac(hmac_key, MessageHeader_to_bytes(to_canonical(msg)), iv, ctr)
    IN VerificationSegment_to_bytes([iv |-> iv, ctr |-> ctr, hmac |-> hmac]) \o ct

\* the envelope of cleartext m: verification segment and encrypted content
Envelope(aes_key, hmac_key, msg, m, ctr, iv) ==
    LET enc_hdr == [sha |-> Sha256(m), len |-> msg.len]
        ct == AesCbcEncrypt(aes_key, iv, ContentHeader_to_bytes(enc_hdr) \o m)
        new_len == VerificationSegment_size + Width(ct)
        hmac == Hmac(hmac_key,
                     MessageHeader_to_bytes(to_canonical([msg EXCEPT !.len = new_len])),
                     iv, ctr)
    IN VerificationSegment_to_bytes([iv |-> iv, ctr |-> ctr, hmac |-> hmac]) \o ct

\* the envelope a holder of the keys makes by hand for cleartext m: its
\* content header stores the length claimed and the digest of the claimed
\* bytes decrypt finds behind the header (m, the padding, then zeros)
ForgedEnvelope(aes_key, hmac_key, msg, m, claimed, ctr, iv) ==
    LET p == PaddedLen(ContentHeader_size + Width(m)) - (ContentHeader_size + Width(m))
        found == Slice(m \o <<[k |-> "pad", w |-> p, v |-> p]>>, 0, claimed)
        enc_hdr == [sha |-> Sha256(found), len |-> claimed]
        ct == AesCbcEncrypt(aes_key, iv, ContentHeader_to_bytes(enc_hdr) \o m)
        new_len == VerificationSegment_size + Width(ct)
        hmac == Hmac(hmac_key,
                     MessageHeader_to_bytes(to_canonical([msg EXCEPT !.len = new_len])),
                     iv, ctr)
    IN VerificationSegment_to_bytes([iv |-> iv, ctr |-> ctr, hmac |-> hmac]) \o ct

\* Handler::encrypt with the IV iv drawn from the RNG: [st, h, data, len];
\* st = "panic" where copy_within, unreachable! or an expect panics
encrypt(h, data, msg, iv) ==
    LET m == Slice(data, 0, msg.len)
        fits == VerificationSegment_size + ContentHeader_size + msg.len <= SCEWL_MAX_DATA_SZ
        known == msg.tgt_id.tag \in {"Broadcast", "Other"}
        room == IF msg.tgt_id.tag = "Broadcast"
                THEN MapCanInsert(h.brdcst_ctr, msg.src_id)
                ELSE MapCanInsert(h.send_dm_ctr, msg.tgt_id)
        enc_len == PaddedLen(ContentHeader_size + msg.len)
    IN IF ~fits \/ ~known \/ ~room
       THEN [st |-> "panic", h |-> h, data |-> data, len |-> 0]
       ELSE IF VerificationSegment_size + enc_len > SCEWL_MAX_DATA_SZ
       THEN [st |-> "panic", h |-> CountSend(h, msg), data |-> data, len |-> 0]
       ELSE [st |-> "ok", h |-> CountSend(h, msg),
             data |-> Envelope(h.aes_key, h.hmac_key, msg, m, NextCtr(h, msg), iv),
             len |-> VerificationSegment_size + enc_len]

\* the handler after decrypt has committed the counter of the envelope
CommitCtr(h, msg, ctr) ==
    IF msg.tgt_id.tag = "Broadcast"
    THEN [h EXCEPT !.brdcst_ctr = MapInsert(h.brdcst_ctr, msg.src_id, ctr)]
    ELSE [h EXCEPT !.recv_dm_ctr = MapInsert(h.recv_dm_ctr, msg.src_id, ctr)]

\* Handler::decrypt: [st, h, data, len]; st is "some", "none" or "panic".
\* The steps are written last first: Segment reads the verification segment
\* and commits its counter, Committed decrypts in place, Opened reads the
\* content header, Parsed checks length and digest and moves the cleartext
\* to the front.
decrypt(h, data, msg) ==
    LET known == msg.tgt_id.tag \in {"Broadcast", "Other"}
        room == IF msg.tgt_id.tag = "Broadcast"
                THEN MapCanInsert(h.brdcst_ctr, msg.src_id)
                ELSE MapCanInsert(h.recv_dm_ctr, msg.src_id)
        start == VerificationSegment_size + ContentHeader_size
        Parsed(h1, data1, enc_hdr) ==
            IF enc_hdr.len > msg.len - (VerificationSegment_size - ContentHeader_size)
            THEN [st |-> "none", h |-> h1, data |-> data1, len |-> 0]
            ELSE IF start + enc_hdr.len > SCEWL_MAX_DATA_SZ
            THEN [st |-> "panic", h |-> h1, data |-> data1, len |-> 0]
            ELSE IF Sha256(Slice(data1, start, enc_hdr.len)) # enc_hdr.sha
            THEN [st |-> "none", h |-> h1, data |-> data1, len |-> 0]
            ELSE [st |-> "some", h |-> h1,
                  data |-> Overwrite(data1, Slice(data1, start, enc_hdr.len)),
                  len |-> enc_hdr.len]
        Opened(h1, ok, data1) ==
            IF ~ok THEN [st |-> "none", h |-> h1, data |-> data1, len |-> 0]
            ELSE Parsed(h1, data1,
                        ContentHeader_from_bytes(Drop(data1, VerificationSegment_size)))
        Decrypted(h1, dec) ==
            Opened(h1, dec.ok,
                   Slice(data, 0, VerificationSegment_size) \o dec.buf
                       \o Drop(data, msg.len))
        Committed(ct_hdr, h1) ==
            IF msg.len < VerificationSegment_size
            THEN [st |-> "panic", h |-> h1, data |-> data, len |-> 0]
            ELSE Decrypted(h1, AesCbcDecrypt(h.aes_key, ct_hdr.iv,
                                   Slice(data, VerificationSegment_size,
                                         msg.len - VerificationSegment_size)))
        Segment(ct_hdr) ==
            IF ~known \/ ~room
            THEN [st |-> "panic", h |-> h, data |-> data, len |-> 0]
            ELSE Committed(ct_hdr, CommitCtr(h, msg, ct_hdr.ctr))
    IN Segment(VerificationSegment_from_bytes(data))

(***************************************************************************)
(* interface.rs: the serial lines.  A line is the sequence of bytes that   *)
(* have arrived and were not yet read.                                     *)
(***************************************************************************)
\* Interface::discard_while with predicate b == 'S' (skipS) or b != 'S':
\* [ok, b, rest]; ok = FALSE when the line runs dry first (readb blocks)
RECURSIVE discard_while(_, _)
discard_while(s, skipS) ==
    IF s = <<>> THEN [ok |-> FALSE, b |-> 0, rest |-> s]
    ELSE LET b == ByteAt(s, 0) IN
         IF (b = MagicS) = skipS
         THEN discard_while(IF skipS \/ Head(s).k = "b" THEN Drop(s, 1) ELSE Tail(s),
                            skipS)
         ELSE [ok |-> TRUE, b |-> b, rest |-> Drop(s, 1)]

\* Interface::discard: up to n bytes, as many as have arrived
discard(s, n) == Drop(s, Min(n, Width(s)))

(***************************************************************************)
(* controller.rs: Controller                                               *)
(***************************************************************************)
\* a variant of Resync that does not skip a run of 'S': the byte after the
\* first 'S' is the magic 'C', or the search starts again after it
RECURSIVE ResyncNoRuns(_)
ResyncNoRuns(s) ==
    LET After(d1) ==
            IF ~d1.ok \/ d1.rest = <<>> THEN [ok |-> FALSE, rest |-> <<>>]
            ELSE IF ByteAt(d1.rest, 0) = MagicC
            THEN [ok |-> TRUE, rest |-> Drop(d1.rest, 1)]
            ELSE ResyncNoRuns(Drop(d1.rest, 1))
    IN After(discard_while(s, FALSE))

\* the loop at the head of read_msg: [ok, rest], rest what follows 'S','C'
RECURSIVE Resync(_)
Resync(s) ==
    LET Second(ok1, d2) ==
            IF ~ok1 \/ ~d2.ok THEN [ok |-> FALSE, rest |-> <<>>]
            ELSE IF d2.b = MagicC THEN [ok |-> TRUE, rest |-> d2.rest]
            ELSE Resync(d2.rest)
        First(d1) == Second(d1.ok, discard_while(d1.rest, TRUE))
    IN First(discard_while(s, FALSE))

\* self.data[..len].fill(0)
Clear(data, n) == IF Width(data) <= n THEN <<>> ELSE Zeros(n) \o Drop(data, n)

NoMsg == [tgt_id |-> Broadcast, src_id |-> Broadcast, len |-> 0]

\* the result of read_msg: st is "ok", "NoMessage", "Unknown", "panic", or
\* "blocked" when a blocking read waits for bytes that have not arrived;
\* rest is what is left on the line, hdr tells whether a header was read,
\* ver is the result of verify or "none" when it was not called
ReadResult(st, rest, data, hdr, msg, ver) ==
    [st |-> st, rest |-> rest, data |-> data, hdr |-> hdr, msg |-> msg, ver |-> ver]

\* a variant of Rejected: the result of verify is not looked at
NeverRejected(ver) == FALSE

\* read_msg, line 405: `if !crypto.verify(self.data, msg)`
Rejected(ver) == ver = "false"

\* a variant of SelfMessage: no header is taken for this controller's own
NoSelfMessage(intf, hdr) == FALSE

\* read_msg, line 375: `intf.named() != INTF::CPU && hdr.src_id == self.id`
SelfMessage(intf, hdr) == intf # "CPU" /\ hdr.src_id = SelfId

\* Controller::read_msg(intf, len) on line s.  The steps are written last
\* first: Synced has found the magic bytes, Header has read the header,
\* Segment the verification segment, Verified has called verify.
read_msg(intf, max_len, s, h, data, oc) ==
    LET Verified(msg, data0, s1, s2, data1, remaining, ver) ==
            IF msg.len < verification_len /\ oc
            THEN ReadResult("panic", s2, data1, TRUE, msg, "none")
            ELSE IF ver = "panic"
            THEN ReadResult("panic", s2, data1, TRUE, msg, ver)
            ELSE IF Rejected(ver)
            THEN ReadResult("Unknown", discard(s2, remaining), data1, TRUE, msg, ver)
            ELSE IF verification_len + remaining > SCEWL_MAX_DATA_SZ
            THEN ReadResult("panic", s2, data1, TRUE, msg, ver)
            ELSE IF Width(s2) < remaining
            THEN ReadResult("blocked", s, data, TRUE, msg, ver)
            ELSE ReadResult("ok", Drop(s2, remaining),
                            Overwrite(data0, Take(s1, verification_len + remaining)),
                            TRUE, msg, ver)
        Segment(msg, data0, s1, data1) ==
            Verified(msg, data0, s1, Drop(s1, verification_len), data1,
                     WrapSub(msg.len, verification_len), verify(h, data1, msg, oc))
        Header(hdr, msg, data0, s1) ==
            IF SelfMessage(intf, hdr)
            THEN ReadResult("NoMessage", s1, data0, TRUE, msg, "none")
            ELSE IF hdr.len > max_len
            THEN ReadResult("NoMessage", discard(s1, hdr.len), data0, TRUE, msg, "none")
            ELSE IF intf = "RAD" /\ hdr.src_id # FAA
            THEN IF ~h.present
                 THEN ReadResult("Unknown", s1, data0, TRUE, msg, "none")
                 ELSE IF Width(s1) < verification_len
                 THEN ReadResult("blocked", s, data, TRUE, msg, "none")
                 ELSE Segment(msg, data0, s1,
                              Overwrite(data0, Take(s1, verification_len)))
            ELSE IF Width(s1) < msg.len
                 THEN ReadResult("blocked", s, data, TRUE, msg, "none")
                 ELSE ReadResult("ok", Drop(s1, msg.len),
                                 Overwrite(data0, Take(s1, msg.len)), TRUE, msg, "none")
        Parsed(hdr, data0, s1) ==
            Header(hdr, [tgt_id |-> hdr.tgt_id, src_id |-> hdr.src_id, len |-> hdr.len],
                   data0, s1)
        Synced(sync, data0) ==
            IF ~sync.ok \/ Width(sync.rest) < 6
            THEN ReadResult("blocked", s, data, FALSE, NoMsg, "none")
            ELSE Parsed(MessageHeader_from_bytes(Zeros(2) \o Take(sync.rest, 6)),
                        data0, Drop(sync.rest, 6))
    IN Synced(Resync(s), Clear(data, max_len))

\* Controller::send_msg: the bytes written, header then data[..msg.len]
send_msg(data, msg) ==
    [hdr |-> MessageHeader_to_bytes(to_canonical(msg)), body |-> Slice(data, 0, msg.len)]


\* the result of a handler: st is "ok", "err" or "panic"; h and data are the
\* crypto handler and the buffer it leaves; cpu, rad, sss are the frames it
\* wrote to each line; dec is the result of decrypt, "not called" without;
\* reply is the length of the body of the frame the SSS answered with, 0
\* when the handler did not ask the SSS
HandlerResult(st, h, data, cpu, rad, sss, dec) ==
    [st |-> st, h |-> h, data |-> data, cpu |-> cpu, rad |-> rad, sss |-> sss,
     dec |-> dec, reply |-> 0]

\* handler result x of a handler that had reply waiting on the SSS line: the
\* reply was asked for when a frame went to the SSS
Answered(x, reply) ==
    [x EXCEPT !.reply = IF x.sss # <<>> THEN Width(reply) - 8 ELSE 0]

\* a variant of RecvWith: what decrypt left in the buffer goes to the CPU
\* whether decrypt returned a length or None
RecvForwardsAll(h, data, msg) ==
    IF ~h.present THEN HandlerResult("err", h, data, <<>>, <<>>, <<>>, "not called")
    ELSE LET Decrypted(d) ==
                 IF d.st = "panic"
                 THEN HandlerResult("panic", d.h, d.data, <<>>, <<>>, <<>>, d.st)
                 ELSE HandlerResult("ok", d.h, d.data,
                                    <<send_msg(d.data, [msg EXCEPT !.len = d.len])>>,
                                    <<>>, <<>>, d.st)
         IN Decrypted(decrypt(h, data, msg))

\* the part handle_scewl_recv and handle_brdcst_recv share
RecvWith(h, data, msg) ==
    IF ~h.present THEN HandlerResult("err", h, data, <<>>, <<>>, <<>>, "not called")
    ELSE LET Decrypted(d) ==
                 IF d.st = "some"
                 THEN HandlerResult("ok", d.h, d.data,
                                    <<send_msg(d.data, [msg EXCEPT !.len = d.len])>>,
                                    <<>>, <<>>, d.st)
                 ELSE HandlerResult(IF d.st = "panic" THEN "panic" ELSE "err",
                                    d.h, d.data, <<>>, <<>>, <<>>, d.st)
         IN Decrypted(decrypt(h, data, msg))

\* Controller::handle_scewl_recv
handle_scewl_recv(h, data, src_id, len) ==
    RecvWith(h, data, [tgt_id |-> SelfId, src_id |-> src_id, len |-> len])

\* a variant of handle_brdcst_recv: the broadcast is handled as a message
\* addressed to this SED
handle_brdcst_recv_as_direct(h, data, src_id, len) ==
    RecvWith(h, data, [tgt_id |-> SelfId, src_id |-> src_id, len |-> len])

\* Controller::handle_brdcst_recv
handle_brdcst_recv(h, data, src_id, len) ==
    RecvWith(h, data, [tgt_id |-> Broadcast, src_id |-> src_id, len |-> len])

\* a variant of SendWith: the buffer goes to the radio as the CPU wrote it
SendClear(h, data, msg, iv) ==
    IF ~h.present THEN HandlerResult("err", h, data, <<>>, <<>>, <<>>, "not called")
    ELSE HandlerResult("ok", h, data, <<>>, <<send_msg(data, msg)>>, <<>>,
                       "not called")

\* the part handle_scewl_send and handle_brdcst_send share
SendWith(h, data, msg, iv) ==
    IF ~h.present THEN HandlerResult("err", h, data, <<>>, <<>>, <<>>, "not called")
    ELSE LET Encrypted(e) ==
                 IF e.st = "ok"
                 THEN HandlerResult("ok", e.h, e.data, <<>>,
                                    <<send_msg(e.data, [msg EXCEPT !.len = e.len])>>,
                                    <<>>, "not called")
                 ELSE HandlerResult("panic", e.h, e.data, <<>>, <<>>, <<>>,
                                    "not called")
         IN Encrypted(encrypt(h, data, msg, iv))

\* Controller::handle_scewl_send
handle_scewl_send(h, data, tgt_id, len, iv) ==
    SendWith(h, data, [tgt_id |-> tgt_id, src_id |-> SelfId, len |-> len], iv)

\* Controller::handle_brdcst_send
handle_brdcst_send(h, data, len, iv) ==
    SendWith(h, data, [tgt_id |-> Broadcast, src_id |-> SelfId, len |-> len], iv)

\* Controller::handle_faa_recv
handle_faa_recv(h, data, len) ==
    HandlerResult("ok", h, data,
                  <<send_msg(data, [src_id |-> FAA, tgt_id |-> SelfId, len |-> len])>>,
                  <<>>, <<>>, "not called")

\* Controller::handle_faa_send
handle_faa_send(h, data, len) ==
    HandlerResult("ok", h, data, <<>>,
                  <<send_msg(data, [src_id |-> SelfId, tgt_id |-> FAA, len |-> len])>>,
                  <<>>, "not called")

(***************************************************************************)
(* secure/auth.rs: the secure authentication handler                       *)
(***************************************************************************)
SecureSSSMessage_size == 2 + 2 + 64
SecureSSSResponse_size == 2 + 2 + 16 + 32 + 64

\* SecureSSSMessage::to_bytes
SecureSSSMessage_to_bytes(m) ==
    WriteU16(U16FromId(m.dev_id)) \o WriteI16(I16FromSSSOp(m.op))
        \o <<[k |-> "secret", w |-> 64, v |-> m.secret]>>

\* a variant of SecureSSSResponse::from_bytes: the secrets are taken only
\* from a response whose op is Register
SecureSSSResponse_from_bytes_register_only(buf, len) ==
    LET ek == ElemAt(buf, 4)
        eh == ElemAt(buf, 52)
    IN [some |-> len >= 2 + 2,
        dev_id |-> IdFromU16(ReadU16(buf, 0)),
        op |-> SSSOpFromI16(ReadI16(buf, 2)),
        secrets |-> len = SecureSSSResponse_size /\ ReadI16(buf, 2) = 0,
        aes_key |-> IF ek.k = "key16" THEN ek.v ELSE "?",
        hmac_key |-> IF eh.k = "key64" THEN eh.v ELSE "?"]

\* SecureSSSResponse::from_bytes of buf = data[..len]: [some, dev_id, op,
\* secrets, aes_key, hmac_key]
SecureSSSResponse_from_bytes(buf, len) ==
    LET ek == ElemAt(buf, 4)
        eh == ElemAt(buf, 52)
    IN [some |-> len >= 2 + 2,
        dev_id |-> IdFromU16(ReadU16(buf, 0)),
        op |-> SSSOpFromI16(ReadI16(buf, 2)),
        secrets |-> len = SecureSSSResponse_size,
        aes_key |-> IF ek.k = "key16" THEN ek.v ELSE "?",
        hmac_key |-> IF eh.k = "key64" THEN eh.v ELSE "?"]

\* a variant of SssExchange: the frame for the SSS is written from the
\* buffer only after the reply was read into it
SssExchangeLateSend(h, data, op, s, oc) ==
    LET msg_buf == SecureSSSMessage_to_bytes(
                       [dev_id |-> SelfId, op |-> op, secret |-> "secret"])
        Late(r) == send_msg(r.data, [tgt_id |-> SSS, src_id |-> SelfId,
                                     len |-> SecureSSSMessage_size])
        Notified(resp, out, data2) ==
            [st |-> "ok", resp |-> resp, data |-> data2, sss |-> <<out>>,
             cpu |-> <<send_msg(data2, [tgt_id |-> SelfId, src_id |-> SSS,
                                        len |-> SSSMessage_size])>>]
        Parsed(r, resp) ==
            IF r.st \in {"blocked", "panic"}
            THEN [st |-> r.st, resp |-> resp, data |-> r.data, sss |-> <<Late(r)>>,
                  cpu |-> <<>>]
            ELSE IF r.st # "ok" \/ ~resp.some
            THEN [st |-> "fail", resp |-> resp, data |-> r.data, sss |-> <<Late(r)>>,
                  cpu |-> <<>>]
            ELSE Notified(resp, Late(r),
                          Overwrite(r.data, SSSMessage_to_bytes(
                                        [dev_id |-> resp.dev_id, op |-> resp.op])))
        Replied(r) ==
            Parsed(r, SecureSSSResponse_from_bytes(Slice(r.data, 0, r.msg.len),
                                                   r.msg.len))
    IN Replied(read_msg("SSS", SecureSSSResponse_size, s, h,
                        Overwrite(data, msg_buf), oc))

\* the exchange sss_register and sss_deregister share: the secure message
\* goes to SSS, the reply is read from line s and the CPU is notified.
\* [st, resp, data, sss, cpu]: st is "ok", "fail" (an early return),
\* "blocked" or "panic"
SssExchange(h, data, op, s, oc) ==
    LET msg_buf == SecureSSSMessage_to_bytes(
                       [dev_id |-> SelfId, op |-> op, secret |-> "secret"])
        Notified(resp, out, data2) ==
            [st |-> "ok", resp |-> resp, data |-> data2, sss |-> <<out>>,
             cpu |-> <<send_msg(data2, [tgt_id |-> SelfId, src_id |-> SSS,
                                        len |-> SSSMessage_size])>>]
        Parsed(r, resp, out) ==
            IF r.st \in {"blocked", "panic"}
            THEN [st |-> r.st, resp |-> resp, data |-> r.data, sss |-> <<out>>,
                  cpu |-> <<>>]
            ELSE IF r.st # "ok" \/ ~resp.some
            THEN [st |-> "fail", resp |-> resp, data |-> r.data, sss |-> <<out>>,
                  cpu |-> <<>>]
            ELSE Notified(resp, out,
                          Overwrite(r.data, SSSMessage_to_bytes(
                                        [dev_id |-> resp.dev_id, op |-> resp.op])))
        Replied(r, out) ==
            Parsed(r, SecureSSSResponse_from_bytes(Slice(r.data, 0, r.msg.len),
                                                   r.msg.len), out)
        Sent(data1) ==
            Replied(read_msg("SSS", SecureSSSResponse_size, s, h, data1, oc),
                    send_msg(data1, [tgt_id |-> SSS, src_id |-> SelfId,
                                     len |-> SecureSSSMessage_size]))
    IN Sent(Overwrite(data, msg_buf))

\* a variant of sss_register: every reply the CPU was notified of yields a
\* crypto handler, made of the bytes where the keys would be
sss_register_any_reply(h, data, s, oc) ==
    LET Done(x) ==
            [st |-> x.st, some |-> x.st = "ok",
             h |-> Handler_new(x.resp.aes_key, x.resp.hmac_key),
             data |-> x.data, sss |-> x.sss, cpu |-> x.cpu]
    IN Done(SssExchange(h, data, "Register", s, oc))

\* Handler::sss_register: [st, some, h, data, sss, cpu]; some tells whether a
\* crypto handler h is returned
sss_register(h, data, s, oc) ==
    LET Done(x) ==
            [st |-> x.st, some |-> x.st = "ok" /\ x.resp.secrets,
             h |-> Handler_new(x.resp.aes_key, x.resp.hmac_key),
             data |-> x.data, sss |-> x.sss, cpu |-> x.cpu]
    IN Done(SssExchange(h, data, "Register", s, oc))

\* a variant of sss_deregister: the result is true once the CPU was
\* notified, whatever the op of the response
sss_deregister_any_op(h, data, s, oc) ==
    LET Done(x) ==
            [st |-> x.st, ret |-> x.st = "ok",
             data |-> x.data, sss |-> x.sss, cpu |-> x.cpu]
    IN Done(SssExchange(h, data, "Deregister", s, oc))

\* Handler::sss_deregister: [st, ret, data, sss, cpu]; ret is the result
sss_deregister(h, data, s, oc) ==
    LET Done(x) ==
            [st |-> x.st, ret |-> x.st = "ok" /\ x.resp.op = "Deregister",
             data |-> x.data, sss |-> x.sss, cpu |-> x.cpu]
    IN Done(SssExchange(h, data, "Deregister", s, oc))

\* a variant of handle_registration: the results of the authentication
\* handler are not looked at, a Register request always installs the handler
\* and a Deregister request always drops it
handle_registration_unchecked(h, data, s, oc) ==
    LET Registered(r) ==
            HandlerResult(IF r.st = "fail" THEN "ok" ELSE r.st,
                          IF r.st \in {"ok", "fail"} THEN r.h ELSE h,
                          r.data, r.cpu, <<>>, r.sss, "not called")
        Deregistered(r) ==
            HandlerResult(IF r.st = "fail" THEN "ok" ELSE r.st,
                          IF r.st \in {"ok", "fail"} THEN NoHandler ELSE h,
                          r.data, r.cpu, <<>>, r.sss, "not called")
        Requested(op) ==
            IF op = "Register" THEN Registered(sss_register(h, data, s, oc))
            ELSE IF op = "Deregister" THEN Deregistered(sss_deregister(h, data, s, oc))
            ELSE HandlerResult("ok", h, data, <<>>, <<>>, <<>>, "not called")
    IN Requested(SSSMessage_from_bytes(data).op)

\* a variant of handle_registration: every op but Deregister is taken for a
\* request to register
handle_registration_by_default(h, data, s, oc) ==
    LET Registered(r) ==
            HandlerResult(IF r.st = "fail" THEN "ok" ELSE r.st,
                          IF r.some THEN r.h ELSE h, r.data, r.cpu, <<>>, r.sss,
                          "not called")
        Deregistered(r) ==
            HandlerResult(IF r.st = "fail" THEN "ok" ELSE r.st,
                          IF r.ret THEN NoHandler ELSE h, r.data, r.cpu, <<>>, r.sss,
                          "not called")
        Requested(op) ==
            IF op = "Deregister" THEN Deregistered(sss_deregister(h, data, s, oc))
            ELSE Registered(sss_register(h, data, s, oc))
    IN Requested(SSSMessage_from_bytes(data).op)

\* Controller::handle_registration with the reply waiting on the SSS line
handle_registration(h, data, s, oc) ==
    LET Registered(r) ==
            HandlerResult(IF r.st = "fail" THEN "ok" ELSE r.st,
                          IF r.some THEN r.h ELSE h, r.data, r.cpu, <<>>, r.sss,
                          "not called")
        Deregistered(r) ==
            HandlerResult(IF r.st = "fail" THEN "ok" ELSE r.st,
                          IF r.ret THEN NoHandler ELSE h, r.data, r.cpu, <<>>, r.sss,
                          "not called")
        Requested(op) ==
            IF op = "Register" THEN Registered(sss_register(h, data, s, oc))
            ELSE IF op = "Deregister" THEN Deregistered(sss_deregister(h, data, s, oc))
            ELSE HandlerResult("ok", h, data, <<>>, <<>>, <<>>, "not called")
    IN Requested(SSSMessage_from_bytes(data).op)


(***************************************************************************)
(* The controller and its three lines                                      *)
(***************************************************************************)
VARIABLES
    crypto,     \* Controller.crypto: the crypto handler, NoHandler for None
    cpu_rx,     \* bytes that arrived on the CPU line and were not read
    rad_rx,     \* bytes that arrived on the RAD line and were not read
    poll,       \* the line the inner loop of run probes next
    halted,     \* the controller panicked (panic_halt)
    cpu_tx,     \* the frames the last step of run wrote to the CPU line
    rad_tx,     \* the frames the last step of run wrote to the RAD line
    sss_tx,     \* the frames the last step of run wrote to the SSS line
    ev,         \* what the last step of run did
    trip,       \* an envelope on its way from a sender's crypto handler to a
                \* receiver's (TripSpec)
    feed,       \* per line, the bytes of a frame its sender has put on the
                \* wire that have not arrived yet (FeedSpec)
    conv        \* a value on its way through a conversion and back
                \* (CodecSpec)

vars == <<crypto, cpu_rx, rad_rx, poll, halted, cpu_tx, rad_tx, sss_tx, ev, trip,
          feed, conv>>

\* Controller.data as every iteration of run finds it: each begins with
\* read_msg(_, SCEWL_MAX_DATA_SZ), whose first statement zero-fills the whole
\* buffer (controller.rs:360), so that the buffer carries nothing from one
\* iteration to the next; a buffer is the bytes written since it was
\* cleared, and zero past them
ClearedData == Clear(Zeros(SCEWL_MAX_DATA_SZ), SCEWL_MAX_DATA_SZ)

\* a variant of registered: the controller takes itself for registered from
\* the start
AlwaysRegistered == TRUE

\* Controller::registered
registered == crypto.present

\* a frame as its sender puts it on a line
Frame(tgt_id, src_id, len, body) ==
    MessageHeader_to_bytes([tgt_id |-> tgt_id, src_id |-> src_id, len |-> len]) \o body

\* the keys the SSS hands to every provisioned SED
FleetAes == "k1"
FleetHmac == "h1"

\* cleartexts the CPUs send
Cleartexts == {<<>>, Bytes(<<65, 66, 33>>)}
\* the longest cleartext whose envelope fits the buffer: the padded content
\* must fit data[VerificationSegment::size()..]
LongestFit ==
    ((SCEWL_MAX_DATA_SZ - VerificationSegment_size) \div BlockSize) * BlockSize
        - 1 - ContentHeader_size
\* long cleartexts: the longest that fits, and one of the maximum size
LongCleartexts == {<<Blob(LongestFit, "m")>>, <<Blob(SCEWL_MAX_DATA_SZ, "m")>>}
\* the IVs the RNGs draw
IVs == {1, 2}

\* what the CPU sends: messages to a peer, to everyone and to the FAA, and
\* requests to the SSS
CpuFrames ==
    {Frame(t, SelfId, Width(m), m) :
        t \in {Other(PeerId), Broadcast, FAA}, m \in Cleartexts}
    \cup {Frame(Other(PeerId), SelfId, Width(m), m) : m \in LongCleartexts}
    \cup {Frame(SSS, SelfId, SSSMessage_size,
                SSSMessage_to_bytes([dev_id |-> SelfId, op |-> op])) :
            op \in {"Register", "Deregister", "Already", "Unknown"}}
    \* frames for the SSS too short for an SSS message: no body, and the
    \* dev_id alone
    \cup {Frame(SSS, SelfId, 0, <<>>), Frame(SSS, SelfId, 2, WriteU16(SCEWL_ID))}
    \* frames in which the CPU names another device as the source
    \cup {Frame(t, Other(OtherId), Width(m), m) :
            t \in {Other(PeerId), Broadcast, FAA}, m \in Cleartexts \ {<<>>}}

\* the body of a reply of the SSS with keys: dev_id, op, AES key, seed, HMAC key
KeyedBody(dev_id, op) ==
    WriteU16(dev_id) \o WriteI16(op)
        \o <<[k |-> "key16", w |-> 16, v |-> FleetAes],
             [k |-> "seed", w |-> 32, v |-> 0],
             [k |-> "key64", w |-> 64, v |-> FleetHmac]>>

\* the replies of the SSS: keys under each operation and under the id of
\* this SED or of a peer, a 4-byte answer, keys followed by 4 more bytes
\* (a body of 120), and an answer cut after 2 bytes
SssReplies ==
    {Frame(SelfId, SSS, SecureSSSResponse_size, KeyedBody(SCEWL_ID, op)) :
        op \in {-1, 0, 1}}
    \cup {Frame(SelfId, SSS, SecureSSSResponse_size, KeyedBody(PeerId, 0))}
    \cup {Frame(SelfId, SSS, SSSMessage_size, WriteU16(SCEWL_ID) \o WriteI16(op)) :
            op \in {-1, 0, 1}}
    \cup {Frame(SelfId, SSS, SecureSSSResponse_size + 4,
                KeyedBody(SCEWL_ID, op) \o <<Frag(4)>>) : op \in {0, 1}}
    \cup {Frame(SelfId, SSS, 2, WriteU16(SCEWL_ID))}

\* the frame a provisioned SED src sends for cleartext m with counter ctr
SedFrame(tgt_id, src_id, m, ctr, iv) ==
    LET env == Envelope(FleetAes, FleetHmac,
                        [tgt_id |-> tgt_id, src_id |-> src_id, len |-> Width(m)],
                        m, ctr, iv)
    IN Frame(tgt_id, src_id, Width(env), env)

\* frame f with its header replaced
Readdress(f, tgt_id, src_id, len) == Frame(tgt_id, src_id, len, Drop(f, 8))
\* frame f with its encrypted content replaced by other bytes as long
Garble(f) == Take(f, 8 + VerificationSegment_size)
                 \o <<Frag(Width(f) - 8 - VerificationSegment_size)>>

\* frame f with the IV and the counter of its envelope replaced
Retouch(f, iv, ctr) ==
    Take(f, 8) \o <<[k |-> "iv", w |-> 16, v |-> iv]>> \o WriteU64(ctr) \o Drop(f, 8 + 24)

Hello == Bytes(<<104, 105>>)
Sample == Bytes(<<65, 66, 33>>)

\* what arrives on the radio
RadFrames ==
    \* the peer's direct messages and broadcasts, fresh or replayed
    {SedFrame(t, Other(PeerId), Sample, c, 1) :
        t \in {SelfId, Broadcast}, c \in 1..MaxCtr}
    \* an envelope whose content was replaced on the air
    \cup {Garble(SedFrame(SelfId, Other(PeerId), Sample, c, 1)) : c \in 1..MaxCtr}
    \* a broadcast re-addressed to this SED, and an envelope with its length cut
    \cup {Readdress(SedFrame(Broadcast, Other(PeerId), Sample, 1, 1),
                    SelfId, Other(PeerId), 104),
          Readdress(SedFrame(SelfId, Other(PeerId), Sample, 1, 1),
                    SelfId, Other(PeerId), 40)}
    \* an envelope of the peer put under the name of a third SED, one sent
    \* on with 16 more bytes, one with another IV and one with a later counter
    \cup {Readdress(SedFrame(SelfId, Other(PeerId), Sample, 1, 1),
                    SelfId, Other(OtherId), 104),
          Readdress(SedFrame(SelfId, Other(PeerId), Sample, 1, 1) \o <<Frag(16)>>,
                    SelfId, Other(PeerId), 120),
          Retouch(SedFrame(SelfId, Other(PeerId), Sample, 1, 1), 2, 1),
          Retouch(SedFrame(SelfId, Other(PeerId), Sample, 1, 1), 1, MaxCtr)}
    \* an envelope made with keys of another fleet
    \cup {Frame(SelfId, Other(PeerId), 104,
                Envelope("kx", "hx",
                         [tgt_id |-> SelfId, src_id |-> Other(PeerId), len |-> 3],
                         Sample, MaxCtr, 1))}
    \* the peer's messages to a third SED, to the FAA and to the SSS
    \cup {SedFrame(t, Other(PeerId), Sample, 1, 1) : t \in {Other(OtherId), FAA, SSS}}
    \* this SED's own broadcast, echoed
    \cup {SedFrame(Broadcast, SelfId, Sample, 1, 1)}
    \* FAA traffic: to this SED, to everyone, to a third SED
    \cup {Frame(t, FAA, Width(Hello), Hello) : t \in {SelfId, Broadcast, Other(OtherId)}}
    \* a broadcast in the name of the FAA that holds an envelope of the fleet
    \cup {SedFrame(Broadcast, FAA, Sample, 1, 1)}
    \* an envelope of the peer whose content header claims 20 bytes for a
    \* cleartext of 3
    \cup {Frame(SelfId, Other(PeerId), 104,
                ForgedEnvelope(FleetAes, FleetHmac,
                               [tgt_id |-> SelfId, src_id |-> Other(PeerId), len |-> 3],
                               Sample, 20, 1, 1))}
    \* an FAA broadcast as long as an envelope
    \cup {Frame(Broadcast, FAA, 72, WriteU64(0) \o WriteU64(0) \o WriteU64(MaxCtr)
                                      \o <<Frag(48)>>)}

\* what a step of run records: op the line read ("cpu", "rad"; "env" after
\* the environment moved), reg whether the controller was registered, st
\* the result of read_msg, hdr and msg the header it read, ver the result of
\* verify, ctr and prev the counter of the frame and the one stored for its
\* sender, body the buffer read_msg returned, dec the result of decrypt,
\* res the result of the handler ("none" when none ran), reply the length of
\* the body of the SSS's answer (0 when the SSS was not asked)
NoEvent ==
    [op |-> "env", reg |-> FALSE, st |-> "none", hdr |-> FALSE, msg |-> NoMsg,
     ver |-> "none", ctr |-> 0, prev |-> 0, body |-> <<>>, dec |-> "not called",
     res |-> "none", reply |-> 0]

Event(op, r, dec, res, reply) ==
    [op |-> op, reg |-> registered, st |-> r.st, hdr |-> r.hdr, msg |-> r.msg,
     ver |-> r.ver,
     ctr |-> IF r.ver = "none" THEN 0 ELSE VerificationSegment_from_bytes(r.data).ctr,
     prev |-> IF r.ver = "none" THEN 0 ELSE InboundCtr(crypto, r.msg),
     body |-> IF r.st = "ok" \/ r.ver # "none" THEN r.data ELSE <<>>,
     dec |-> dec, res |-> res, reply |-> reply]

\* no envelope is followed
NoTrip ==
    [stage |-> "none", sender |-> NoHandler, receiver |-> NoHandler, msg |-> NoMsg,
     m |-> <<>>, iv |-> 0, enc |-> "none", data |-> <<>>, ctr |-> 0, prev |-> 0,
     ver |-> "none", dec |-> "none", len |-> 0]

\* no value is being converted
NoConv == [stage |-> "none", kind |-> "none", src |-> 0, mid |-> 0, out |-> 0]

\* nothing is on its way on either line
NoFeed == [cpu |-> <<>>, rad |-> <<>>]

Init ==
    /\ trip = NoTrip
    /\ feed = NoFeed
    /\ conv = NoConv
    /\ crypto = NoHandler
    /\ cpu_rx = <<>>
    /\ rad_rx = <<>>
    /\ poll = "cpu"
    /\ halted = FALSE
    /\ cpu_tx = <<>>
    /\ rad_tx = <<>>
    /\ sss_tx = <<>>
    /\ ev = NoEvent

\* the step of run ends: the handler result x after read result r
Finish(op, r, x, next) ==
    /\ crypto' = x.h
    /\ halted' = (x.st = "panic")
    /\ cpu_tx' = x.cpu
    /\ rad_tx' = x.rad
    /\ sss_tx' = x.sss
    /\ poll' = next
    /\ ev' = Event(op, r, x.dec, x.st, x.reply)
    /\ trip' = trip
    /\ feed' = feed
    /\ conv' = conv

\* no handler ran after read result r
NoHandlerRan(r) ==
    HandlerResult(IF r.st = "panic" THEN "panic" ELSE "none",
                  crypto, r.data, <<>>, <<>>, <<>>, "not called")

\* a variant of DispatchCpu: a message for a peer goes out under the source
\* the CPU wrote into its frame
DispatchCpuKeepsSource(r, reply, iv, oc) ==
    IF r.st # "ok" THEN NoHandlerRan(r)
    ELSE CASE r.msg.tgt_id = Broadcast -> handle_brdcst_send(crypto, r.data, r.msg.len, iv)
           [] r.msg.tgt_id = SSS -> handle_registration(crypto, r.data, reply, oc)
           [] r.msg.tgt_id = FAA -> handle_faa_send(crypto, r.data, r.msg.len)
           [] OTHER -> SendWith(crypto, r.data, r.msg, iv)

\* run, lines 643-656: the dispatch of a frame read from the CPU line
DispatchCpu(r, reply, iv, oc) ==
    IF r.st # "ok" THEN NoHandlerRan(r)
    ELSE CASE r.msg.tgt_id = Broadcast -> handle_brdcst_send(crypto, r.data, r.msg.len, iv)
           [] r.msg.tgt_id = SSS -> handle_registration(crypto, r.data, reply, oc)
           [] r.msg.tgt_id = FAA -> handle_faa_send(crypto, r.data, r.msg.len)
           [] OTHER -> handle_scewl_send(crypto, r.data, r.msg.tgt_id, r.msg.len, iv)

\* a variant of RunUnregistered: every frame of the CPU is dispatched before
\* the controller is registered
RunDispatchesAll(r, reply, oc) == DispatchCpu(r, reply, 1, oc)

\* a variant of RunUnregistered: frames for the FAA, which need no crypto
\* handler, are passed on before the controller is registered
RunUnregisteredFaa(r, reply, oc) ==
    IF r.st = "ok" /\ r.msg.tgt_id = SSS
    THEN handle_registration(crypto, r.data, reply, oc)
    ELSE IF r.st = "ok" /\ r.msg.tgt_id = FAA
    THEN handle_faa_send(crypto, r.data, r.msg.len)
    ELSE NoHandlerRan(r)

\* run, lines 636-640: not registered, the controller reads the CPU line
\* and acts on requests to the SSS alone
RunUnregistered(r, reply, oc) ==
    IF r.st = "ok" /\ r.msg.tgt_id = SSS
    THEN handle_registration(crypto, r.data, reply, oc)
    ELSE NoHandlerRan(r)

\* the replies the SSS may give after read result r: none is read unless
\* the frame is a request to the SSS
RepliesFor(r) == IF r.st = "ok" /\ r.msg.tgt_id = SSS THEN SssReplies ELSE {<<>>}
\* the IVs the RNG may draw after read result r: none is drawn unless the
\* frame is encrypted
IVsFor(r) ==
    IF r.st = "ok" /\ r.msg.tgt_id.tag \in {"Broadcast", "Other"} THEN IVs ELSE {0}

Unregistered ==
    /\ ~halted /\ ~registered
    /\ \E oc \in BOOLEAN :
         \E r \in {read_msg("CPU", SCEWL_MAX_DATA_SZ, cpu_rx, crypto, ClearedData, oc)} :
         /\ r.st # "blocked"
         /\ \E reply \in RepliesFor(r) :
              \E x \in {Answered(RunUnregistered(r, reply, oc), reply)} :
              /\ x.st # "blocked"
              /\ cpu_rx' = r.rest
              /\ rad_rx' = rad_rx
              /\ Finish("cpu", r, x, "cpu")

\* run, line 643: cpu.avail() holds when the loop probes the CPU line, which
\* it does first, and again after a frame of the CPU was handled
CpuTurn == cpu_rx # <<>> /\ (poll = "cpu" \/ rad_rx = <<>>)
\* run, line 658: rad.avail() holds when the loop probes the RAD line, which
\* it does when the CPU line was empty or its read_msg failed
RadTurn == rad_rx # <<>> /\ (poll = "rad" \/ cpu_rx = <<>>)
\* read_msg on line s comes back: none of its blocking reads waits for a
\* byte that has not arrived
Returns(intf, s) ==
    \E oc \in BOOLEAN :
        read_msg(intf, SCEWL_MAX_DATA_SZ, s, crypto, ClearedData, oc).st # "blocked"

RegisteredCpu ==
    /\ ~halted /\ registered
    /\ CpuTurn
    /\ \E oc \in BOOLEAN :
         \E r \in {read_msg("CPU", SCEWL_MAX_DATA_SZ, cpu_rx, crypto, ClearedData, oc)} :
         /\ r.st # "blocked"
         /\ \E reply \in RepliesFor(r), iv \in IVsFor(r) :
              \E x \in {Answered(DispatchCpu(r, reply, iv, oc), reply)} :
              /\ x.st # "blocked"
              /\ \A k \in DOMAIN x.h.send_dm_ctr : x.h.send_dm_ctr[k] <= MaxCtr
              /\ MapGet(x.h.brdcst_ctr, SelfId) <= MaxCtr
              /\ cpu_rx' = r.rest
              /\ rad_rx' = rad_rx
              /\ Finish("cpu", r, x, IF r.st = "ok" THEN "cpu" ELSE "rad")

\* run, lines 658-673: the dispatch of a frame read from the RAD line
DispatchRad(r) ==
    IF r.st # "ok" THEN NoHandlerRan(r)
    ELSE CASE r.msg.tgt_id = Broadcast ->
                handle_brdcst_recv(crypto, r.data, r.msg.src_id, r.msg.len)
           [] r.msg.src_id = FAA /\ r.msg.tgt_id = SelfId ->
                handle_faa_recv(crypto, r.data, r.msg.len)
           [] r.msg.tgt_id = SelfId ->
                handle_scewl_recv(crypto, r.data, r.msg.src_id, r.msg.len)
           [] OTHER -> NoHandlerRan(r)

\* a variant of RegisteredRad: the controller takes the frame that arrived
\* last on the RAD line and leaves the ones before it where they are
RegisteredRadNewest ==
    /\ ~halted /\ registered
    /\ RadTurn
    /\ \E at \in {i \in 1..Len(rad_rx) :
                     /\ Resync(SubSeq(rad_rx, i, Len(rad_rx))).ok
                     /\ \A j \in (i + 1)..Len(rad_rx) :
                            ~Resync(SubSeq(rad_rx, j, Len(rad_rx))).ok} :
         \E oc \in BOOLEAN :
         \E r \in {read_msg("RAD", SCEWL_MAX_DATA_SZ, SubSeq(rad_rx, at, Len(rad_rx)),
                            crypto, ClearedData, oc)} :
         \E x \in {DispatchRad(r)} :
            /\ r.st # "blocked"
            /\ rad_rx' = SubSeq(rad_rx, 1, at - 1) \o r.rest
            /\ cpu_rx' = cpu_rx
            /\ Finish("rad", r, x, "cpu")

RegisteredRad ==
    /\ ~halted /\ registered
    /\ RadTurn
    /\ \E oc \in BOOLEAN :
         \E r \in {read_msg("RAD", SCEWL_MAX_DATA_SZ, rad_rx, crypto, ClearedData, oc)} :
         \E x \in {DispatchRad(r)} :
            /\ r.st # "blocked"
            /\ rad_rx' = r.rest
            /\ cpu_rx' = cpu_rx
            /\ Finish("rad", r, x, "cpu")

\* no frame waits on line s: at most bytes that do not start one
NoFrameOn(s) == ~Resync(s).ok

\* the CPU sends a frame; it waits for the controller to have read the frames
\* that arrived, but for the RAD line of a controller that is not
\* registered, which is not read
CpuSends ==
    /\ ~halted /\ NoFrameOn(cpu_rx)
    /\ NoFrameOn(rad_rx) \/ ~registered
    /\ \E f \in CpuFrames : cpu_rx' = cpu_rx \o f
    /\ cpu_tx' = <<>> /\ rad_tx' = <<>> /\ sss_tx' = <<>> /\ ev' = NoEvent
    /\ UNCHANGED <<crypto, rad_rx, poll, halted, trip, feed, conv>>

\* a frame arrives on the radio, once the controller has read the frames
\* that arrived
RadioDelivers ==
    /\ ~halted /\ NoFrameOn(rad_rx) /\ NoFrameOn(cpu_rx)
    /\ \E f \in RadFrames : rad_rx' = rad_rx \o f
    /\ cpu_tx' = <<>> /\ rad_tx' = <<>> /\ sss_tx' = <<>> /\ ev' = NoEvent
    /\ UNCHANGED <<crypto, cpu_rx, poll, halted, trip, feed, conv>>

Next == Unregistered \/ RegisteredCpu \/ RegisteredRad \/ CpuSends \/ RadioDelivers

Spec == Init /\ [][Next]_vars

(***************************************************************************)
(* An envelope from encrypt to verify and decrypt: a sender's handler      *)
(* encrypts a cleartext, a receiver's handler with the same keys verifies  *)
(* the segment and decrypts the buffer.                                    *)
(***************************************************************************)
\* the cleartexts: empty, short, one that fills its last block, and the
\* longest for which the envelope fits the buffer
TripCleartexts == {<<>>, Sample, Bytes(<<1, 2, 3, 4, 5, 6, 7, 8, 9, 10, 11, 12>>),
                   <<Blob(LongestFit, "m")>>}
                      \cup {<<Blob(n, "m")>> : n \in 1..(3 * BlockSize)}

\* a map that holds n for key, nothing when n = 0
MapOf(key, n) == IF n = 0 THEN <<>> ELSE MapInsert(<<>>, key, n)

\* the handlers of a sender that has sent b broadcasts and d direct messages
TripSenders ==
    {[Handler_new(FleetAes, FleetHmac) EXCEPT
         !.brdcst_ctr = MapOf(SelfId, b),
         !.send_dm_ctr = MapOf(Other(PeerId), d)] :
        b \in 0..(MaxCtr - 1), d \in 0..1}

\* the handlers of a receiver that has committed counter c for the sender
TripReceivers ==
    {[Handler_new(FleetAes, FleetHmac) EXCEPT
         !.brdcst_ctr = MapOf(SelfId, c),
         !.recv_dm_ctr = MapOf(SelfId, c)] : c \in 0..MaxCtr}

TripInit ==
    /\ feed = NoFeed
    /\ conv = NoConv
    /\ crypto = NoHandler
    /\ cpu_rx = <<>>
    /\ rad_rx = <<>>
    /\ poll = "cpu"
    /\ halted = FALSE
    /\ cpu_tx = <<>>
    /\ rad_tx = <<>>
    /\ sss_tx = <<>>
    /\ ev = NoEvent
    /\ \E hs \in TripSenders, hr \in TripReceivers, iv \in IVs,
          tgt_id \in {Broadcast, Other(PeerId)}, m \in TripCleartexts :
         trip = [NoTrip EXCEPT
                    !.stage = "drawn", !.sender = hs, !.receiver = hr,
                    !.msg = [tgt_id |-> tgt_id, src_id |-> SelfId, len |-> Width(m)],
                    !.m = m, !.iv = iv, !.data = m]

\* the sender's handle_scewl_send or handle_brdcst_send calls encrypt on the
\* buffer that holds the cleartext
TripEncrypt ==
    /\ trip.stage = "drawn"
    /\ \E e \in {encrypt(trip.sender, trip.data, trip.msg, trip.iv)} :
         trip' = [trip EXCEPT
                     !.stage = "encrypted", !.enc = e.st, !.sender = e.h,
                     !.data = e.data, !.msg = [trip.msg EXCEPT !.len = e.len],
                     !.ctr = VerificationSegment_from_bytes(e.data).ctr,
                     !.prev = InboundCtr(trip.receiver, trip.msg)]
    /\ UNCHANGED <<crypto, cpu_rx, rad_rx, poll, halted, cpu_tx, rad_tx, sss_tx, ev, feed, conv>>

\* the receiver's read_msg calls verify on the segment
TripVerify ==
    /\ trip.stage = "encrypted" /\ trip.enc = "ok"
    /\ \E oc \in BOOLEAN :
         trip' = [trip EXCEPT
                     !.stage = "verified",
                     !.ver = verify(trip.receiver,
                                    Slice(trip.data, 0, verification_len),
                                    trip.msg, oc)]
    /\ UNCHANGED <<crypto, cpu_rx, rad_rx, poll, halted, cpu_tx, rad_tx, sss_tx, ev, feed, conv>>

\* the receiver's handle_scewl_recv or handle_brdcst_recv calls decrypt on
\* the buffer of a frame verify accepted
TripDecrypt ==
    /\ trip.stage = "verified" /\ trip.ver = "true"
    /\ \E d \in {decrypt(trip.receiver, trip.data, trip.msg)} :
         trip' = [trip EXCEPT
                     !.stage = "decrypted", !.dec = d.st, !.receiver = d.h,
                     !.data = d.data, !.len = d.len]
    /\ UNCHANGED <<crypto, cpu_rx, rad_rx, poll, halted, cpu_tx, rad_tx, sss_tx, ev, feed, conv>>

TripNext == TripEncrypt \/ TripVerify \/ TripDecrypt

TripSpec == TripInit /\ [][TripNext]_vars

(***************************************************************************)
(* The lines byte by byte: a frame a sender has put on the wire arrives in *)
(* pieces, and the controller may run between two pieces.                  *)
(***************************************************************************)
\* a declared length above the maximum read_msg is given
OverLen == SCEWL_MAX_DATA_SZ + 1
\* a frame of the FAA for this SED
FaaHello == Frame(SelfId, FAA, Width(Hello), Hello)
\* a frame of declared length OverLen whose last bytes read as FaaHello
OverlongFrame ==
    Frame(SelfId, Other(PeerId), OverLen,
          <<Blob(OverLen - Width(FaaHello), "x")>> \o FaaHello)
\* noise that holds runs of 'S', then a zero-length frame of the FAA
NoisyFrame == Bytes(<<65, MagicS, MagicS, 66, MagicS>>) \o Frame(SelfId, FAA, 0, <<>>)

\* what the CPU sends: a request to register and a message for the FAA
FeedCpuFrames ==
    {Frame(SSS, SelfId, SSSMessage_size,
           SSSMessage_to_bytes([dev_id |-> SelfId, op |-> "Register"])),
     Frame(FAA, SelfId, Width(Hello), Hello)}
\* the k-th frame of a run of frames that source src sends to this SED: the
\* FAA in the clear, a SED enveloped with counter k; the message is the byte k
Labelled(src, k) ==
    IF src = FAA THEN Frame(SelfId, FAA, 1, Bytes(<<k>>))
    ELSE SedFrame(SelfId, src, Bytes(<<k>>), k, 1)
\* the first k frames of the run, one behind the other on the wire
RECURSIVE Burst(_, _)
Burst(src, k) == IF k = 0 THEN <<>> ELSE Burst(src, k - 1) \o Labelled(src, k)
\* who sends runs of frames
BurstSources == {FAA, Other(PeerId)}

\* what arrives on the radio
FeedRadFrames ==
    {OverlongFrame, NoisyFrame, FaaHello,
     SedFrame(SelfId, Other(PeerId), Sample, 1, 1)}
    \cup {Burst(src, BurstLen) : src \in BurstSources}

\* the SSS hands out the keys
FeedReplies == {r \in SssReplies : Width(r) = 8 + SecureSSSResponse_size}

\* where the bytes s on the wire may be cut: after the first byte, after the
\* header, after the field that follows the header, before the last ten
\* bytes, at the end (a count of leading elements of s)
Cuts(s) == {j \in {1, 8, 9, Len(s) - 10, Len(s)} : 1 <= j /\ j <= Len(s)}

\* the step of run of a controller that is not registered, with the SSS's
\* reply among FeedReplies
FeedUnregistered ==
    /\ ~halted /\ ~registered
    /\ \E oc \in BOOLEAN :
         \E r \in {read_msg("CPU", SCEWL_MAX_DATA_SZ, cpu_rx, crypto, ClearedData, oc)} :
         /\ r.st # "blocked"
         /\ \E reply \in (IF RepliesFor(r) = {<<>>} THEN {<<>>} ELSE FeedReplies) :
              \E x \in {Answered(RunUnregistered(r, reply, oc), reply)} :
              /\ x.st # "blocked"
              /\ cpu_rx' = r.rest
              /\ rad_rx' = rad_rx
              /\ Finish("cpu", r, x, "cpu")

\* the CPU puts a frame on the wire
CpuFeeds ==
    /\ ~halted /\ feed.cpu = <<>> /\ NoFrameOn(cpu_rx)
    /\ \E f \in FeedCpuFrames : feed' = [feed EXCEPT !.cpu = f]
    /\ cpu_tx' = <<>> /\ rad_tx' = <<>> /\ sss_tx' = <<>> /\ ev' = NoEvent
    /\ UNCHANGED <<crypto, cpu_rx, rad_rx, poll, halted, trip, conv>>

\* a sender on the radio puts a frame on the wire
RadioFeeds ==
    /\ ~halted /\ feed.rad = <<>> /\ NoFrameOn(rad_rx)
    /\ \E f \in FeedRadFrames : feed' = [feed EXCEPT !.rad = f]
    /\ cpu_tx' = <<>> /\ rad_tx' = <<>> /\ sss_tx' = <<>> /\ ev' = NoEvent
    /\ UNCHANGED <<crypto, cpu_rx, rad_rx, poll, halted, trip, conv>>

\* bytes of the CPU's frame arrive at the UART
CpuArrives ==
    /\ ~halted /\ feed.cpu # <<>>
    /\ \E j \in Cuts(feed.cpu) :
         /\ cpu_rx' = cpu_rx \o SubSeq(feed.cpu, 1, j)
         /\ feed' = [feed EXCEPT !.cpu = SubSeq(feed.cpu, j + 1, Len(feed.cpu))]
    /\ cpu_tx' = <<>> /\ rad_tx' = <<>> /\ sss_tx' = <<>> /\ ev' = NoEvent
    /\ UNCHANGED <<crypto, rad_rx, poll, halted, trip, conv>>

\* bytes of the radio's frame arrive at the UART
RadioArrives ==
    /\ ~halted /\ feed.rad # <<>>
    /\ \E j \in Cuts(feed.rad) :
         /\ rad_rx' = rad_rx \o SubSeq(feed.rad, 1, j)
         /\ feed' = [feed EXCEPT !.rad = SubSeq(feed.rad, j + 1, Len(feed.rad))]
    /\ cpu_tx' = <<>> /\ rad_tx' = <<>> /\ sss_tx' = <<>> /\ ev' = NoEvent
    /\ UNCHANGED <<crypto, cpu_rx, poll, halted, trip, conv>>

FeedNext ==
    \/ FeedUnregistered \/ RegisteredCpu \/ RegisteredRad
    \/ CpuFeeds \/ RadioFeeds \/ CpuArrives \/ RadioArrives

FeedSpec == Init /\ [][FeedNext]_vars

(***************************************************************************)
(* The conversions between values and their bytes: a value is drawn, goes  *)
(* through a conversion and comes back through its inverse.                *)
(***************************************************************************)
\* every u16
U16 == 0..65535
\* the ids a frame can carry after From<u16>
WireIds == {Broadcast, SSS, FAA, Other(SCEWL_ID), Other(PeerId), Other(65535)}
\* the operations of an SSS message
SSSOps == {"Already", "Register", "Deregister", "Unknown"}
\* i16 values of the op field on the wire: the three the protocol names,
\* their neighbours and the ends of the range
WireOps == {-32768, -2, -1, 0, 1, 2, 3, 32767}

\* the values that are converted: a u16, the four bytes of an SSS message,
\* an SSSMessage
CodecDraws ==
    {[NoConv EXCEPT !.stage = "drawn", !.kind = "u16", !.src = n] : n \in U16}
    \cup {[NoConv EXCEPT !.stage = "drawn", !.kind = "bytes",
                         !.src = WriteU16(U16FromId(d)) \o WriteI16(o)] :
             d \in WireIds, o \in WireOps}
    \cup {[NoConv EXCEPT !.stage = "drawn", !.kind = "msg",
                         !.src = [dev_id |-> d, op |-> o]] :
             d \in WireIds, o \in SSSOps}

CodecInit ==
    /\ trip = NoTrip
    /\ feed = NoFeed
    /\ crypto = NoHandler
    /\ cpu_rx = <<>>
    /\ rad_rx = <<>>
    /\ poll = "cpu"
    /\ halted = FALSE
    /\ cpu_tx = <<>>
    /\ rad_tx = <<>>
    /\ sss_tx = <<>>
    /\ ev = NoEvent
    /\ conv \in CodecDraws

\* Id::from(u16)
IdDecodes ==
    /\ conv.kind = "u16" /\ conv.stage = "drawn"
    /\ conv' = [conv EXCEPT !.stage = "there", !.mid = IdFromU16(conv.src)]
    /\ UNCHANGED <<crypto, cpu_rx, rad_rx, poll, halted, cpu_tx, rad_tx, sss_tx, ev, trip, feed>>

\* u16::from(Id)
IdEncodes ==
    /\ conv.kind = "u16" /\ conv.stage = "there"
    /\ conv' = [conv EXCEPT !.stage = "back", !.out = U16FromId(conv.mid)]
    /\ UNCHANGED <<crypto, cpu_rx, rad_rx, poll, halted, cpu_tx, rad_tx, sss_tx, ev, trip, feed>>

\* SSSMessage::from_bytes, of bytes drawn or of the bytes of a message
SssParses ==
    /\ conv.kind \in {"bytes", "msg"}
    /\ conv.stage = (IF conv.kind = "bytes" THEN "drawn" ELSE "there")
    /\ conv' = IF conv.kind = "bytes"
               THEN [conv EXCEPT !.stage = "there", !.mid = SSSMessage_from_bytes(conv.src)]
               ELSE [conv EXCEPT !.stage = "back", !.out = SSSMessage_from_bytes(conv.mid)]
    /\ UNCHANGED <<crypto, cpu_rx, rad_rx, poll, halted, cpu_tx, rad_tx, sss_tx, ev, trip, feed>>

\* SSSMessage::to_bytes, of a message drawn or of the message parsed from bytes
SssSerialises ==
    /\ conv.kind \in {"bytes", "msg"}
    /\ conv.stage = (IF conv.kind = "msg" THEN "drawn" ELSE "there")
    /\ conv' = IF conv.kind = "msg"
               THEN [conv EXCEPT !.stage = "there", !.mid = SSSMessage_to_bytes(conv.src)]
               ELSE [conv EXCEPT !.stage = "back", !.out = SSSMessage_to_bytes(conv.mid)]
    /\ UNCHANGED <<crypto, cpu_rx, rad_rx, poll, halted, cpu_tx, rad_tx, sss_tx, ev, trip, feed>>

CodecNext == IdDecodes \/ IdEncodes \/ SssParses \/ SssSerialises

CodecSpec == CodecInit /\ [][CodecNext]_vars

(***************************************************************************)
(* Properties                                                              *)
(***************************************************************************)
\* the header of a frame send_msg wrote
HeaderOf(f) == MessageHeader_from_bytes(f.hdr)
\* the bytes of the frame the last step read
ReadBody == Slice(ev.body, 0, ev.msg.len)
\* two counter maps give every peer the same counter (a peer without an
\* entry has counter 0, as verify reads it)
SameMap(a, b) == \A k \in DOMAIN a \cup DOMAIN b : MapGet(a, k) = MapGet(b, k)
\* the last step was a step of run that read a header on the RAD line
RadStep == ev.op = "rad" /\ ev.hdr

\* C1: while the controller is not registered (it holds no crypto handler)
\* no step writes a byte to the RAD line, whatever arrives on the lines.
C1_UnregisteredWritesNoRad == [][~crypto.present => rad_tx' = <<>>]_vars

\* a controller that is not registered was asked by its CPU to send to the
\* FAA and wrote nothing to the radio
C1_Witness ==
    /\ ~crypto.present /\ ev.op = "cpu" /\ ~ev.reg /\ ev.st = "ok"
    /\ ev.msg.tgt_id = FAA /\ ev.msg.len > 0
    /\ rad_tx = <<>>

\* C2: while the controller is not registered, a step of run reads the CPU
\* line alone and leaves the RAD line as it is; what it writes to the CPU
\* comes from the SSS, and it writes only when the CPU addressed the SSS.
C2_UnregisteredIgnoresRad ==
    [][(~crypto.present /\ ev'.op # "env") =>
           /\ ev'.op = "cpu"
           /\ rad_rx' = rad_rx
           /\ rad_tx' = <<>>
           /\ \A i \in DOMAIN cpu_tx' : HeaderOf(cpu_tx'[i]).src_id = SSS
           /\ (cpu_tx' # <<>> \/ sss_tx' # <<>>) => ev'.msg.tgt_id = SSS]_vars

\* a frame waits on the RAD line of a controller that is not registered
\* while it exchanges registration traffic between CPU and SSS
C2_Witness ==
    /\ ~crypto.present /\ ev.op = "cpu" /\ ~ev.reg
    /\ rad_rx # <<>>
    /\ ev.msg.tgt_id = SSS /\ sss_tx # <<>> /\ cpu_tx # <<>>

\* C3: a radio message that is not from the FAA and whose counter is not
\* greater than the counter stored for its sender and class (a counter was
\* stored: prev > 0) is not forwarded to the CPU, a replay with the stored
\* counter included.
C3_NotGreaterIsDropped ==
    (RadStep /\ ev.msg.src_id # FAA /\ ev.ver # "none"
        /\ ev.prev > 0 /\ ev.ctr <= ev.prev)
    => cpu_tx = <<>>

C5_RejectedNotForwarded ==
    (ev.op = "rad" /\ ev.ver = "false")
    => /\ cpu_tx = <<>>
       /\ ev.st = "Unknown" /\ ev.res = "none" /\ ev.dec = "not called"

\* verify returned false for a frame whose counter was not stale (its HMAC
\* was wrong) and for one whose counter was stale
C5_Witness ==
    /\ ev.op = "rad" /\ ev.ver = "false" /\ ev.ctr >= ev.prev
    /\ MapGet(crypto.recv_dm_ctr, Other(PeerId)) = MaxCtr
    /\ cpu_tx = <<>>

\* C6: a step of run on the RAD line changes an inbound counter (the map of
\* direct messages received, the map of broadcasts) only when its decrypt
\* returned Some.
C6_CounterOnlyBySuccessfulDecrypt ==
    [][(ev'.op = "rad" /\ crypto.present /\ crypto'.present
           /\ ~(SameMap(crypto'.recv_dm_ctr, crypto.recv_dm_ctr)
                /\ SameMap(crypto'.brdcst_ctr, crypto.brdcst_ctr)))
       => ev'.dec = "some"]_vars

\* C7: a frame with source FAA read on the RAD line is handled without the
\* crypto handler, whatever its target: decrypt is not called, the handler
\* is as it was, and what goes to the CPU is the body as read, with its
\* length.
C7_FaaBypassesCrypto ==
    [][(ev'.op = "rad" /\ ev'.st = "ok" /\ ev'.msg.src_id = FAA)
       => /\ ev'.dec = "not called"
          /\ crypto' = crypto
          /\ \A i \in DOMAIN cpu_tx' :
                /\ cpu_tx'[i].body = Slice(ev'.body, 0, ev'.msg.len)
                /\ HeaderOf(cpu_tx'[i]).len = ev'.msg.len]_vars

\* C8: a frame written to the RAD line with a target other than the FAA
\* carries the envelope encrypt makes of the cleartext the CPU sent, never
\* the cleartext; a frame to the FAA carries the bytes the CPU sent.
C8_RadCarriesEnvelope ==
    \A i \in DOMAIN rad_tx :
        IF HeaderOf(rad_tx[i]).tgt_id = FAA
        THEN /\ rad_tx[i].body = ReadBody
             /\ HeaderOf(rad_tx[i]).len = ev.msg.len
        ELSE /\ rad_tx[i].body # ReadBody
             /\ \E iv \in IVs, c \in 1..MaxCtr :
                    rad_tx[i].body =
                        Envelope(crypto.aes_key, crypto.hmac_key,
                                 [tgt_id |-> ev.msg.tgt_id, src_id |-> SelfId,
                                  len |-> ev.msg.len],
                                 ReadBody, c, iv)
             /\ HeaderOf(rad_tx[i]).len = Width(rad_tx[i].body)

\* the CPU's three bytes for the peer went out as an envelope
C8_Witness ==
    /\ ev.op = "cpu" /\ ev.msg.tgt_id = Other(PeerId) /\ ev.msg.len = 3
    /\ Len(rad_tx) = 1 /\ HeaderOf(rad_tx[1]).len = 104

\* the receiver got the cleartext back: decrypt returned Some(|m|) and m is
\* at offset 0 of the buffer
TripDelivered ==
    /\ trip.dec = "some" /\ trip.len = Width(trip.m)
    /\ Slice(trip.data, 0, trip.len) = trip.m

C10_ForeignTargetDropped ==
    (RadStep /\ ev.msg.tgt_id # Broadcast /\ ev.msg.tgt_id # SelfId)
    => (cpu_tx = <<>> /\ ~halted)

\* C11: every cleartext read_msg accepts from the CPU for a peer or for
\* everyone is enveloped in place: encrypt does not fail and the frame written
\* to the RAD line fits the buffer.
C11_AcceptedCleartextFits ==
    (ev.op = "cpu" /\ ev.reg /\ ev.st = "ok"
        /\ ev.msg.tgt_id.tag \in {"Broadcast", "Other"})
    => /\ ev.res = "ok" /\ ~halted
       /\ Len(rad_tx) = 1
       /\ HeaderOf(rad_tx[1]).len <= SCEWL_MAX_DATA_SZ

\* C12: a frame read on the RAD line whose source is this controller's own Id
\* is not forwarded: read_msg fails, no handler runs, the CPU gets nothing.
C12_SelfEchoNotForwarded ==
    (RadStep /\ ev.msg.src_id = SelfId)
    => /\ cpu_tx = <<>>
       /\ ev.st = "NoMessage" /\ ev.res = "none" /\ ev.ver = "none"

\* this controller's own broadcast envelope came back on the radio and was
\* dropped at its header
C12_Witness ==
    /\ RadStep /\ ev.reg /\ ev.msg.src_id = SelfId /\ ev.msg.tgt_id = Broadcast
    /\ ev.msg.len = 104 /\ ev.st = "NoMessage" /\ cpu_tx = <<>>

\* C13: when read_msg reads a header on the RAD line whose declared length
\* is above the maximum, the frame is not forwarded and every byte of its
\* body is consumed: none is left on the line and none is still to arrive
\* (so that none is parsed later).
C13_OverlongFullyDiscarded ==
    (RadStep /\ ev.msg.len > SCEWL_MAX_DATA_SZ)
    => /\ ev.st = "NoMessage" /\ ev.res = "none" /\ cpu_tx = <<>>
       /\ rad_rx = <<>> /\ feed.rad = <<>>

\* the bytes 'S','C' occur on line s, next to each other
HasMagic(s) ==
    \E i \in 1..(Len(s) - 1) : s[i] = B(MagicS) /\ s[i + 1] = B(MagicC)
\* what follows the first occurrence of 'S','C' on line s
AfterMagic(s) ==
    LET first == CHOOSE i \in 1..(Len(s) - 1) :
                     /\ s[i] = B(MagicS) /\ s[i + 1] = B(MagicC)
                     /\ \A j \in 1..(i - 1) : ~(s[j] = B(MagicS) /\ s[j + 1] = B(MagicC))
    IN SubSeq(s, first + 2, Len(s))
\* the line the last step of run read, as it was before the step
LineRead(op, cpu, rad) == IF op = "cpu" THEN cpu ELSE rad

\* C14: on either line the resynchronisation of read_msg ends right after
\* the first 'S','C', whatever comes before it, and finds no magic where
\* there is none; a step of run reads the six bytes that follow as the header.
C14_ResyncAtFirstMagic ==
    [][/\ \A s \in {cpu_rx, rad_rx} :
              IF HasMagic(s)
              THEN Resync(s) = [ok |-> TRUE, rest |-> AfterMagic(s)]
              ELSE ~Resync(s).ok
       /\ ev'.op \in {"cpu", "rad"} =>
              /\ ev'.hdr
              /\ HasMagic(LineRead(ev'.op, cpu_rx, rad_rx))
              /\ ev'.msg = MessageHeader_from_bytes(
                     Zeros(2) \o SubSeq(AfterMagic(LineRead(ev'.op, cpu_rx, rad_rx)), 1, 6))
      ]_vars

\* the zero-length frame that came after noise with runs of 'S' was read and
\* delivered to the CPU
C14_Witness ==
    /\ RadStep /\ ev.st = "ok" /\ ev.msg = [tgt_id |-> SelfId, src_id |-> FAA, len |-> 0]
    /\ Len(cpu_tx) = 1 /\ HeaderOf(cpu_tx[1]).len = 0
    /\ rad_rx = <<>> /\ feed.rad = <<>>

\* the last step of run read a request of the CPU to the SSS with operation op
SssRequest(e, op) ==
    /\ e.op = "cpu" /\ e.st = "ok" /\ e.msg.tgt_id = SSS
    /\ e.msg.src_id = SelfId
    /\ SSSMessage_from_bytes(e.body).op = op
\* the frames fs written to the CPU are one notification of an answer of the
\* SSS with operation op
Notifies(fs, op) ==
    /\ Len(fs) = 1 /\ HeaderOf(fs[1]) = [tgt_id |-> SelfId, src_id |-> SSS, len |-> SSSMessage_size]
    /\ SSSMessage_from_bytes(fs[1].body).op = op

\* C15: the controller starts without a crypto handler (Unregistered); a
\* step gives it one only when it handled a Register request of the CPU and
\* the SSS answered with the keys the handler is made of, and a step takes
\* the handler away only when it handled a Deregister request the SSS
\* answered with Deregister; every step records as Registered exactly the
\* states that hold a handler.
C15_RegistrationTransitions ==
    /\ ~registered /\ crypto = NoHandler
    /\ [][/\ ev'.op # "env" => (ev'.reg <=> crypto.present)
          /\ (~crypto.present /\ crypto'.present) =>
                /\ SssRequest(ev', "Register")
                /\ crypto' = Handler_new(FleetAes, FleetHmac)
                /\ Len(sss_tx') = 1 /\ Len(cpu_tx') = 1
          /\ (crypto.present /\ ~crypto'.present) =>
                /\ SssRequest(ev', "Deregister")
                /\ crypto' = NoHandler
                /\ Len(sss_tx') = 1 /\ Notifies(cpu_tx', "Deregister")
         ]_vars

\* the controller registered, and then a Deregister request of its CPU that
\* the SSS granted left it without a handler
C15_Witness ==
    /\ SssRequest(ev, "Deregister") /\ ev.reg /\ ~registered
    /\ Notifies(cpu_tx, "Deregister")

\* a step of run on a Register request of the CPU to a controller that is
\* not registered: one frame to the SSS, from this controller, whose body of
\* n bytes is the secure message as built before the reply came into the
\* buffer; the handler is installed only in a step that also passed the
\* first four bytes (dev_id, op) of a reply with keys on to the CPU, with
\* the keys of that reply
RegisterStep(n) ==
    (~crypto.present /\ SssRequest(ev', "Register")) =>
        /\ Len(sss_tx') = 1
        /\ HeaderOf(sss_tx'[1]) = [tgt_id |-> SSS, src_id |-> SelfId, len |-> n]
        /\ Width(sss_tx'[1].body) = n
        /\ sss_tx'[1].body = SecureSSSMessage_to_bytes(
                                 [dev_id |-> SelfId, op |-> "Register", secret |-> "secret"])
        /\ rad_tx' = <<>>
        /\ Len(cpu_tx') <= 1
        /\ cpu_tx' # <<>> =>
              /\ HeaderOf(cpu_tx'[1]) = [tgt_id |-> SelfId, src_id |-> SSS, len |-> 4]
              /\ \E reply \in SssReplies : cpu_tx'[1].body = Slice(reply, 8, 4)
        /\ crypto'.present =>
              \E reply \in SssReplies :
                  /\ Width(reply) = 8 + SecureSSSResponse_size
                  /\ cpu_tx' # <<>> /\ cpu_tx'[1].body = Slice(reply, 8, 4)
                  /\ crypto' = Handler_new(ElemAt(reply, 12).v, ElemAt(reply, 60).v)

\* C16 as stated, with the body of the frame to the SSS 84 bytes long.
C16_RegisterExchange84 == [][RegisterStep(84)]_vars

\* C16, with the length the code gives the secure message: on a Register
\* request while not registered the controller writes one frame to the SSS
\* (target SSS, source itself, a 68-byte body dev_id, op = Register,
\* secret), reads the reply, writes the 4-byte (dev_id, op) of the reply to
\* the CPU, and holds a crypto handler only after that.
C16_RegisterExchange == [][RegisterStep(68)]_vars

\* a Register request was answered with keys: the secure message went out,
\* the CPU was told and the controller is registered
C16_Witness ==
    /\ SssRequest(ev, "Register") /\ ~ev.reg /\ registered
    /\ Len(sss_tx) = 1 /\ Width(sss_tx[1].body) = 68
    /\ Notifies(cpu_tx, "Register")

\* the SEDs of the fleet other than this one
Peers == {Other(PeerId), Other(OtherId)}
\* no counter crypto handler g stores for frames received from a peer is
\* lower than the one handler h stores
InboundKept(h, g) ==
    \A p \in Peers :
        /\ MapGet(g.brdcst_ctr, p) >= MapGet(h.brdcst_ctr, p)
        /\ MapGet(g.recv_dm_ctr, p) >= MapGet(h.recv_dm_ctr, p)

\* C17: across a step that leaves the controller Registered, whatever frame
\* or request it handled, the counters stored for frames received from each
\* peer (broadcast and direct) do not decrease.
C17_InboundCountersKept ==
    [][(crypto.present /\ crypto'.present) => InboundKept(crypto, crypto')]_vars

\* the counter crypto handler h keeps for what it sends to target tgt_id
OutboundCtr(h, tgt_id) ==
    IF tgt_id.tag = "Broadcast" THEN MapGet(h.brdcst_ctr, SelfId)
    ELSE MapGet(h.send_dm_ctr, tgt_id)

\* C18: a step that envelopes a message of the CPU for a peer or for all
\* raises the outbound counter of that target (direct map under the target,
\* broadcast map for Broadcast) by exactly one and sends the frame with the
\* raised counter, so that the k-th message to a target carries ctr = k.
C18_OutboundCounterStepsByOne ==
    [][(/\ crypto.present /\ ev'.op = "cpu" /\ ev'.st = "ok" /\ ev'.res = "ok"
        /\ ev'.msg.tgt_id.tag \in {"Broadcast", "Other"}) =>
          /\ OutboundCtr(crypto', ev'.msg.tgt_id) = OutboundCtr(crypto, ev'.msg.tgt_id) + 1
          /\ Len(rad_tx') = 1
          /\ VerificationSegment_from_bytes(rad_tx'[1].body).ctr
                 = OutboundCtr(crypto', ev'.msg.tgt_id)
      ]_vars

\* frame f is on line s, whole
OnLine(f, s) ==
    \E i \in 1..(Len(s) - Len(f) + 1) : SubSeq(s, i, i + Len(f) - 1) = f
\* the frames fs written to the CPU are the k-th message of source src
Forwards(fs, src, k) ==
    /\ Len(fs) = 1
    /\ HeaderOf(fs[1]) = [tgt_id |-> SelfId, src_id |-> src, len |-> 1]
    /\ fs[1].body = Bytes(<<k>>)

\* C19: of the frames one source sends to this SED one behind the other,
\* the controller writes the k-th to the CPU only when none of those that
\* arrived before it is still waiting on the RAD line or on the wire: what
\* is forwarded is forwarded in the order of arrival.
C19_ForwardedInArrivalOrder ==
    [][\A src \in BurstSources : \A k \in 1..BurstLen :
          (ev'.op = "rad" /\ Forwards(cpu_tx', src, k)) =>
              \A j \in 1..(k - 1) : ~OnLine(Labelled(src, j), rad_rx' \o feed'.rad)
      ]_vars

\* the second frame of a peer's run was forwarded, after the first had been
\* accepted, while nothing was left on the line
C19_Witness ==
    /\ RadStep /\ Forwards(cpu_tx, Other(PeerId), 2)
    /\ ev.ctr = 2 /\ ev.prev = 1
    /\ rad_rx = <<>> /\ feed.rad = <<>>

\* a whole frame waits on line s: the magic, the header and as many bytes
\* as the header declares
Complete(s) ==
    /\ HasMagic(s)
    /\ Width(AfterMagic(s)) >= 6
    /\ Width(AfterMagic(s)) >=
          6 + MessageHeader_from_bytes(Zeros(2) \o Take(AfterMagic(s), 6)).len

\* C20: while the controller is Registered and runs, a whole frame waiting
\* on the CPU line or on the RAD line leaves it a step to take, whatever has
\* arrived on the other line (nothing, or part of a frame): it does not wait
\* for bytes of the other line before it reads and dispatches the frame.
C20_WaitingFrameIsServed ==
    (registered /\ ~halted /\ (Complete(cpu_rx) \/ Complete(rad_rx)))
    => \/ CpuTurn /\ Returns("CPU", cpu_rx)
       \/ RadTurn /\ Returns("RAD", rad_rx)

\* C21: when decrypt returns None for a frame received on the RAD line, the
\* step writes nothing to the CPU (nor to another line), the handler ends
\* with an error that run ignores, and the controller is still Registered
\* and running.
C21_DecryptNoneIsDropped ==
    (RadStep /\ ev.dec = "none")
    => /\ cpu_tx = <<>> /\ rad_tx = <<>> /\ sss_tx = <<>>
       /\ ev.res = "err" /\ registered /\ ~halted

\* a peer's envelope whose content was replaced on the air passed verify and
\* failed in decrypt
C21_Witness ==
    /\ RadStep /\ ev.msg.src_id = Other(PeerId) /\ ev.ver = "true"
    /\ ev.dec = "none" /\ cpu_tx = <<>> /\ registered /\ ~halted

\* the conversion of kind kind has gone there and back
WentBack(kind) == conv.kind = kind /\ conv.stage = "back"

\* C22: every u16 converted to an Id and back is the same u16; 0, 1 and 2
\* decode to Broadcast, SSS and FAA, every other value n to Other(n).
C22_IdRoundTrip ==
    (conv.kind = "u16" /\ conv.stage \in {"there", "back"})
    => /\ conv.src = 0 => conv.mid = [tag |-> "Broadcast", n |-> 0]
       /\ conv.src = 1 => conv.mid = [tag |-> "SSS", n |-> 0]
       /\ conv.src = 2 => conv.mid = [tag |-> "FAA", n |-> 0]
       /\ conv.src \notin {0, 1, 2} => conv.mid = [tag |-> "Other", n |-> conv.src]
       /\ conv.stage = "back" => conv.out = conv.src

\* the largest u16 went to Other(65535) and back
C22_Witness ==
    /\ WentBack("u16") /\ conv.src = 65535
    /\ conv.mid = Other(65535) /\ conv.out = 65535

\* C23: an SSSMessage serialised and parsed again is the same message, and
\* four bytes parsed and serialised again are the same four bytes, whatever
\* i16 their op field holds.
C23_SSSMessageRoundTrip ==
    (WentBack("msg") \/ WentBack("bytes")) => conv.out = conv.src

\* encrypt returned for the envelope that is followed
Enveloped == trip.stage \in {"encrypted", "verified", "decrypted"} /\ trip.enc = "ok"

C25_SelfEchoBodyConsumed ==
    [][(ev'.op = "rad" /\ ev'.hdr /\ ev'.msg.src_id = SelfId /\ ev'.st = "NoMessage") =>
          rad_rx' = Drop(AfterMagic(rad_rx), 6 + ev'.msg.len)]_vars

\* C26: for a frame of the RAD line from a SED (not the FAA, not this SED)
\* whose declared length is below the 56 bytes of the verification segment,
\* read_msg returns an error, nothing is written to the CPU and the
\* controller runs on.
C26_ShortFrameIsDropped ==
    (/\ RadStep /\ ev.reg /\ ev.msg.src_id \notin {FAA, SelfId}
     /\ ev.msg.len < verification_len)
    => /\ ev.st \in {"Unknown", "NoMessage"} /\ ev.res = "none"
       /\ cpu_tx = <<>> /\ ~halted

\* line s of interface intf holds a header read_msg accepts and fewer bytes
\* after it than the header declares
Truncated(intf, s) ==
    /\ HasMagic(s) /\ Width(AfterMagic(s)) >= 6
    /\ \E hdr \in {MessageHeader_from_bytes(Zeros(2) \o Take(AfterMagic(s), 6))} :
          /\ ~SelfMessage(intf, hdr)
          /\ hdr.len <= SCEWL_MAX_DATA_SZ
          /\ Width(AfterMagic(s)) < 6 + hdr.len

\* C27: when a line holds fewer bytes of payload than the header read_msg
\* accepted declares, read_msg returns NoMessage.
C27_ShortPayloadIsNoMessage ==
    (registered /\ ~halted) =>
        /\ Truncated("CPU", cpu_rx) =>
              \A oc \in BOOLEAN :
                  read_msg("CPU", SCEWL_MAX_DATA_SZ, cpu_rx, crypto, ClearedData, oc).st
                      = "NoMessage"
        /\ Truncated("RAD", rad_rx) =>
              \A oc \in BOOLEAN :
                  read_msg("RAD", SCEWL_MAX_DATA_SZ, rad_rx, crypto, ClearedData, oc).st
                      = "NoMessage"

\* the length stored in the content header of the envelope the last step
\* read, as decrypt finds it
StoredLen ==
    ContentHeader_from_bytes(
        AesCbcDecrypt(crypto.aes_key, VerificationSegment_from_bytes(ev.body).iv,
                      Slice(ev.body, VerificationSegment_size,
                            ev.msg.len - VerificationSegment_size)).buf).len

\* C28: decrypt returns None whenever the length stored in the decrypted
\* content header exceeds the declared length of the body less 56 and 40,
\* the room behind the content header.
C28_StoredLengthBounded ==
    (/\ RadStep /\ ev.dec \in {"some", "none", "panic"}
     /\ ev.msg.len > VerificationSegment_size
     /\ StoredLen > ev.msg.len - 56 - 40)
    => ev.dec = "none"


\* C29: verify accepts an envelope only if its hmac field is the HMAC under
\* the handler's key of the transport header as received (target, source,
\* length), the IV and the counter as received; an envelope made under that
\* key whose header, IV or counter is no longer the one its HMAC was made
\* over is not accepted and nothing of it reaches the CPU.
ReceivedSegment == VerificationSegment_from_bytes(ev.body)
ReceivedHeader == MessageHeader_to_bytes(
    [tgt_id |-> ev.msg.tgt_id, src_id |-> ev.msg.src_id, len |-> ev.msg.len % 65536])
Retouched ==
    /\ Len(ReceivedSegment.hmac) = 4
    /\ ReceivedSegment.hmac[1] = crypto.hmac_key
    /\ \/ ReceivedSegment.hmac[2] # ReceivedHeader
       \/ ReceivedSegment.hmac[3] # ReceivedSegment.iv
       \/ ReceivedSegment.hmac[4] # ReceivedSegment.ctr
C29_HmacBindsHeaderIvCtr ==
    /\ (RadStep /\ ev.ver = "true") =>
            ReceivedSegment.hmac =
                <<crypto.hmac_key, ReceivedHeader, ReceivedSegment.iv, ReceivedSegment.ctr>>
    /\ (RadStep /\ ev.ver \in {"true", "false"} /\ Retouched) =>
            ev.ver = "false" /\ cpu_tx = <<>>
\* a broadcast of the peer, re-addressed to this SED, is rejected
C29_Witness ==
    /\ RadStep /\ Retouched /\ ev.ver = "false" /\ cpu_tx = <<>>
    /\ ev.msg.tgt_id = SelfId /\ ev.msg.src_id = Other(PeerId)
    /\ ReceivedSegment.hmac[2] =
           MessageHeader_to_bytes([tgt_id |-> Broadcast, src_id |-> Other(PeerId), len |-> 104])
    /\ ReceivedSegment.hmac[3] = ReceivedSegment.iv
    /\ ReceivedSegment.hmac[4] = ReceivedSegment.ctr


\* the 4-byte answers of the SSS
ShortReplies == {reply \in SssReplies : Width(reply) = 8 + SSSMessage_size}

\* C30: when the SSS answers a Register request with 4 bytes, the 4-byte
\* (dev_id, op) message goes to the CPU, no crypto handler is produced, and
\* the controller stays as it was, Registered or not, with the crypto
\* handler it held and the counters in it.
C30_ShortReplyKeepsHandler ==
    [][(SssRequest(ev', "Register") /\ ev'.reply = SSSMessage_size) =>
          /\ Len(sss_tx') = 1
          /\ Len(cpu_tx') = 1
          /\ HeaderOf(cpu_tx'[1]) =
                 [tgt_id |-> SelfId, src_id |-> SSS, len |-> SSSMessage_size]
          /\ \E reply \in ShortReplies :
                 cpu_tx'[1].body = Slice(reply, 8, SSSMessage_size)
          /\ rad_tx' = <<>>
          /\ crypto' = crypto
          /\ registered' = registered
          /\ ~halted']_vars
\* a controller whose handler has counted a message asked to register, the
\* SSS answered "already" in 4 bytes, and the handler still has its counters
C30_Witness ==
    /\ SssRequest(ev, "Register") /\ ev.reg /\ registered /\ ~halted
    /\ ev.reply = SSSMessage_size /\ Notifies(cpu_tx, "Already")
    /\ crypto.send_dm_ctr # <<>> /\ crypto.recv_dm_ctr # <<>>


\* a step of run on a Register request of the CPU: the controller holds a
\* crypto handler newly made of the keys of the SSS's response when the body
\* of the response is n bytes long, and what it held before otherwise
RegisterYields(n) ==
    SssRequest(ev', "Register") =>
        /\ ev'.reply = n =>
              /\ crypto' = Handler_new(FleetAes, FleetHmac)
              /\ Len(cpu_tx') = 1
        /\ ev'.reply # n => crypto' = crypto

\* C31 as stated, with a response body of 120 bytes.
C31_HandlerIffKeyedReply120 == [][RegisterYields(120)]_vars

\* C31, with the length the code gives the response: sss_register returns a
\* crypto handler if and only if the body of the SSS's response is exactly
\* 116 bytes long, whatever the op and the dev_id in it.
C31_HandlerIffKeyedReply == [][RegisterYields(SecureSSSResponse_size)]_vars

\* a controller that was not registered is registered by a response of 116
\* bytes whose op is Already
C31_Witness ==
    /\ SssRequest(ev, "Register") /\ ~ev.reg /\ registered
    /\ ev.reply = SecureSSSResponse_size
    /\ Notifies(cpu_tx, "Already")


\* the SSS's response was read: its body is no shorter than the 4 bytes
\* (dev_id, op) and no longer than a response with keys
ResponseRead(e) == e.reply >= SSSMessage_size /\ e.reply <= SecureSSSResponse_size

\* C32: a Deregister request of the CPU to a Registered controller goes to
\* the SSS; the controller drops its crypto handler and is Unregistered
\* exactly when the response was read and its op is Deregister; on any
\* other op, and on a response that is too short or too long to be read
\* (of which the CPU hears nothing), it stays Registered with the handler
\* and the counters it had.
C32_DeregisterOnlyOnDeregister ==
    [][(crypto.present /\ SssRequest(ev', "Deregister")) =>
          /\ Len(sss_tx') = 1
          /\ ResponseRead(ev') <=> Len(cpu_tx') = 1
          /\ IF ResponseRead(ev') /\ Notifies(cpu_tx', "Deregister")
             THEN crypto' = NoHandler /\ ~registered'
             ELSE crypto' = crypto /\ registered'
          /\ ~halted']_vars
\* a controller whose handler has counted a message asked to deregister,
\* the SSS answered "already", and it is still Registered with its counters
C32_Witness ==
    /\ SssRequest(ev, "Deregister") /\ ev.reg /\ registered
    /\ ResponseRead(ev) /\ Notifies(cpu_tx, "Already")
    /\ crypto.send_dm_ctr # <<>>


\* C33: while the controller is Unregistered, a frame of the CPU whose
\* target is not the SSS is read and dropped: nothing is written to the
\* CPU, the SSS or the RAD line, no handler runs and the controller stays
\* Unregistered.
C33_UnregisteredDropsOtherTargets ==
    [][(/\ ~crypto.present /\ ev'.op = "cpu" /\ ev'.st = "ok"
        /\ ev'.msg.tgt_id # SSS) =>
          /\ cpu_tx' = <<>> /\ sss_tx' = <<>> /\ rad_tx' = <<>>
          /\ ev'.res = "none"
          /\ cpu_rx' = Drop(AfterMagic(cpu_rx), 6 + ev'.msg.len)
          /\ ~crypto'.present /\ ~halted']_vars
\* an Unregistered controller read a frame of its CPU for the FAA and wrote
\* nothing
C33_Witness ==
    /\ ev.op = "cpu" /\ ~ev.reg /\ ev.st = "ok" /\ ev.msg.tgt_id = FAA
    /\ ev.msg.len > 0
    /\ cpu_tx = <<>> /\ sss_tx = <<>> /\ rad_tx = <<>>
    /\ ~registered /\ ~halted


\* the last step of run read a frame of the CPU for the SSS that holds a
\* whole SSS message
SssFrame(e) ==
    /\ e.op = "cpu" /\ e.st = "ok" /\ e.msg.tgt_id = SSS
    /\ e.msg.len >= SSSMessage_size

\* C34: a frame of the CPU for the SSS whose op is Already or Unknown makes
\* the controller write nothing, to the SSS, the CPU or the RAD line, and
\* leaves it Registered or Unregistered as it was, with the crypto handler
\* it held.
C34_OtherOpsAreIgnored ==
    [][(SssFrame(ev') /\ SSSMessage_from_bytes(ev'.body).op \in {"Already", "Unknown"}) =>
          /\ sss_tx' = <<>> /\ cpu_tx' = <<>> /\ rad_tx' = <<>>
          /\ ev'.reply = 0
          /\ crypto' = crypto
          /\ ~halted']_vars
\* a Registered controller whose handler has counted a message read a frame
\* for the SSS with an op that is none of the three known and did nothing
C34_Witness ==
    /\ SssFrame(ev) /\ SSSMessage_from_bytes(ev.body).op = "Unknown"
    /\ ev.reg /\ registered /\ crypto.send_dm_ctr # <<>>
    /\ sss_tx = <<>> /\ cpu_tx = <<>>


\* C35: a frame of the CPU for the SSS whose body is shorter than the 4
\* bytes of an SSS message is not taken for a request to register or to
\* deregister: nothing is written to the SSS and the controller stays
\* Registered or Unregistered as it was.
C35_ShortSssFrameIsNoRequest ==
    [][(/\ ev'.op = "cpu" /\ ev'.st = "ok" /\ ev'.msg.tgt_id = SSS
        /\ ev'.msg.len < SSSMessage_size) =>
          /\ sss_tx' = <<>>
          /\ crypto'.present = crypto.present]_vars


\* C36: every frame the controller writes to the RAD line has the Id of
\* this device in the source field of its header, whatever source the CPU
\* wrote into the frame it handed over.
C36_RadSourceIsSelf ==
    \A i \in DOMAIN rad_tx : HeaderOf(rad_tx[i]).src_id = SelfId
\* the CPU handed over a frame for a peer under the name of a third device,
\* and the frame on the RAD line names this device
C36_Witness ==
    /\ ev.op = "cpu" /\ ev.st = "ok"
    /\ ev.msg.tgt_id = Other(PeerId) /\ ev.msg.src_id = Other(OtherId)
    /\ Len(rad_tx) = 1
    /\ HeaderOf(rad_tx[1]).src_id = SelfId
    /\ HeaderOf(rad_tx[1]).tgt_id = Other(PeerId)


\* frame f as send_msg writes it: 8 header bytes that start with 'S', 'C'
\* and end with the length of the body that follows, which is no longer
\* than the buffer
WellFramed(f) ==
    /\ Width(f.hdr) = 8
    /\ Take(f.hdr, 2) = Bytes(<<83, 67>>)
    /\ ReadU16(f.hdr, 6) = Width(f.body)
    /\ Width(f.body) <= SCEWL_MAX_DATA_SZ
\* the frames the last step wrote, to any line
Written == cpu_tx \o rad_tx \o sss_tx

\* C37: every frame send_msg writes, to the CPU, the RAD or the SSS line,
\* starts with the bytes 'S', 'C', and the 16-bit length in its header is
\* the number of body bytes written after the header: no message the
\* controller can send has a length the 16 bits truncate.
C37_FramesAreWellFramed == \A i \in DOMAIN Written : WellFramed(Written[i])
\* the longest envelope that fits the buffer went out on the RAD line with
\* its length in the header
C37_Witness ==
    /\ Len(rad_tx) = 1 /\ WellFramed(rad_tx[1])
    /\ Width(rad_tx[1].body) =
           VerificationSegment_size + PaddedLen(ContentHeader_size + LongestFit)
    /\ ReadU16(rad_tx[1].hdr, 6) > 255


\* what AES-CBC decryption under the handler's key leaves of the envelope
\* the last step read: the content header and the padded cleartext
OpenedContent ==
    AesCbcDecrypt(crypto.aes_key, ReceivedSegment.iv,
                  Slice(ev.body, VerificationSegment_size,
                        ev.msg.len - VerificationSegment_size)).buf

\* C38: a broadcast read from the RAD line that verify accepts and decrypt
\* opens goes to the CPU as one frame with target Broadcast, the source of
\* the frame received, the length the cleartext has in the envelope, and
\* the bytes of the cleartext and no others.
C38_BroadcastForwardedAsSent ==
    (RadStep /\ ev.msg.tgt_id = Broadcast /\ ev.ver = "true" /\ ev.dec = "some") =>
        /\ Len(cpu_tx) = 1
        /\ HeaderOf(cpu_tx[1]) =
               [tgt_id |-> Broadcast, src_id |-> ev.msg.src_id,
                len |-> ContentHeader_from_bytes(OpenedContent).len]
        /\ Width(cpu_tx[1].body) = ContentHeader_from_bytes(OpenedContent).len
        /\ cpu_tx[1].body = Slice(OpenedContent, ContentHeader_size,
                                  ContentHeader_from_bytes(OpenedContent).len)
        /\ rad_tx = <<>> /\ sss_tx = <<>>
\* a broadcast of the peer with the 3-byte message 'A', 'B', '!' arrived
\* at the CPU with those 3 bytes
C38_Witness ==
    /\ RadStep /\ ev.msg.tgt_id = Broadcast /\ ev.msg.src_id = Other(PeerId)
    /\ ev.ver = "true" /\ ev.dec = "some"
    /\ Len(cpu_tx) = 1
    /\ HeaderOf(cpu_tx[1]) = [tgt_id |-> Broadcast, src_id |-> Other(PeerId), len |-> 3]
    /\ cpu_tx[1].body = Bytes(<<65, 66, 33>>)


\* C39: decrypt is called only on a frame for which verify was called in
\* the same read_msg and returned true; no step on the RAD line commits a
\* counter to the handler's maps from a frame that did not pass verify's
\* counter and HMAC checks.
C39_DecryptOnlyAfterVerify ==
    /\ [](RadStep /\ ev.dec # "not called" => ev.ver = "true")
    /\ [][(ev'.op = "rad" /\ crypto' # crypto) => ev'.ver = "true"]_vars

=============================================================================
